---------------------------- MODULE Spec2Model ----------------------------
(***************************************************************************)
(* A model of the delegation-and-streaming substrate of scout-backend:     *)
(*   - the retrying caller _call_perplexity_api (agents/market_agent.py),  *)
(*   - the artifact registry report_filepaths_storage with its lock        *)
(*     (agents/shared_storage.py and the save_*_report / combine_reports   *)
(*     tools that register paths),                                         *)
(*   - the event bus EventQueue (utils/event_queue.py) with the producers  *)
(*     of execute_research_plan (agents/planner_agent.py).                 *)
(* Each part has its own specification over the same variables; a          *)
(* specification leaves the variables of the other parts unchanged.        *)
(***************************************************************************)
EXTENDS Integers, Sequences, FiniteSets, TLC

VARIABLES
    \* ---- retrying caller (one call of _call_perplexity_api) ----
    rc_pc,          \* "idle" | "loop" | "done"
    rc_api_key,     \* os.getenv("PERPLEXITY_API_KEY") is set
    rc_max_retries, \* the max_retries argument
    rc_attempt,     \* the loop variable `attempt`
    rc_attempts,    \* number of network attempts made (requests.post submitted)
    rc_delays,      \* the time.sleep arguments, in order
    rc_outcomes,    \* what the upstream answered to each attempt, in order
    rc_result,      \* the kind of the returned string, "none" while running
    rc_citations,   \* data["citations"] of the decoded answer
    rc_search_results, \* data["search_results"] of the decoded answer
    rc_sources,     \* source_links: the "- url" lines joined after the content
    \* ---- artifact registry, accessed by concurrent callers ----
    registry,       \* report_filepaths_storage: the list of registered paths
    lock,           \* storage_lock: NoOne, or the process holding it
    t_pc,           \* per process: "idle" | "wait" | "locked" | "checked" | "release"
    t_op,           \* per process: the operation it is running
    t_path,         \* per process: the local file_path / output_path
    t_absent,       \* per process: the value of `file_path not in report_filepaths_storage`
    completed,      \* history: paths of the registrations finished since the last clear
    calls,          \* history: number of registry operations started
    \* ---- the synthesizer's view of the registry ----
    syn_pc,         \* "idle" | "handed" | "prompted" | "combining" | "registering" | "done"
    syn_handover,   \* history: the registry content when it was handed over
    syn_filepaths,  \* the list written into the prompt, which combine_reports gets
    syn_iterated,   \* the paths combine_reports has visited so far, in order
    syn_combined,   \* combine_reports' local combined_content
    syn_runs,       \* number of run_synthesis_agent_tool calls started
    syn_log,        \* history: one record per completed synthesis run
    \* ---- the report files on disk ----
    files,          \* per path: whether the file exists, and its text
    \* ---- the event bus ----
    queue,          \* EventQueue._queue: the buffered events, head first
    history,        \* history: every event the queue accepted, in order
    dropped,        \* number of events dropped with a log entry
    last_put,       \* history: the last EventQueue.put_nowait call
    uuids,          \* number of uuid4() values drawn so far
    received,       \* the events the consumer got from EventQueue.get, in order
    c_pc,           \* consumer: "idle" | "in_get" (suspended in EventQueue.get)
    c_waited,       \* time units the consumer has been suspended in this get
    api_puts,       \* events published through EventQueue.put / put_nowait
    m_pc,           \* polling consumer: "idle" | "checked" (saw a non-empty queue)
    m_received,     \* events_received of the polling consumer, in order
    \* ---- the coordinator: one run of execute_research_plan ----
    todo,           \* todo_list_storage: the list of tasks of each category
    ex_pc,          \* "idle" | "dispatch" | "running" | "stuck" | "ending" | "done" | "failed"
    ex_cat,         \* index of the category being handled
    ex_trace,       \* trace_id
    ex_span,        \* span_id of the running stream_and_capture_report
    w_progress,     \* update_work_progress calls of the running worker
    w_saved,        \* the running worker has called its save_*_report tool
    w_tasks,        \* len(tasks) of the running worker
    ex_elapsed,     \* time units for which the running worker has been stuck
    todo_reply,     \* what the last update_todo_list call returned
    ex_runs,        \* number of execute_research_plan calls started
    ex_dispatched,  \* history: per category, how many tasks at the head of its
                    \* list have been handed to a worker since the list was made
    progress_reply, \* what the last update_work_progress call returned
    save_log,       \* history: what each save_*_report call of a worker found and
                    \* returned, since clear_planner_todo_list last ran
    \* ---- the orchestrator's plan store ----
    received_plans_storage, \* the list of plan records
    coordination_status,    \* per plan id: its coordination status
    orch_reply,     \* what the last tool call on the plan store returned
    \* ---- the WebSocket connection manager ----
    active_connections, \* ConnectionManager.active_connections
    ws_state,       \* per socket: "new" | "open" | "broken" | "closed"
    ws_inbox,       \* per socket: the texts sent to it, in order
    bc_pc,          \* broadcast: "idle" | "iterating" | "done"
    bc_i,           \* broadcast: position of the list iterator of the for loop
    bc_message,     \* broadcast: its `message` argument
    bc_call,        \* history: active_connections when broadcast was called
    bc_count        \* number of broadcast calls started

rc_vars == <<rc_pc, rc_api_key, rc_max_retries, rc_attempt, rc_attempts,
             rc_delays, rc_outcomes, rc_result, rc_citations,
             rc_search_results, rc_sources>>

rc_extracted == <<rc_citations, rc_search_results, rc_sources>>

reg_vars == <<registry, lock, t_pc, t_op, t_path, t_absent, completed, calls>>

syn_vars == <<syn_pc, syn_handover, syn_filepaths, syn_iterated, syn_combined,
              syn_runs, syn_log>>

fs_vars == <<files>>

bus_vars == <<queue, history, dropped, last_put, uuids, received, c_pc,
              c_waited, api_puts, m_pc, m_received>>

ex_vars == <<todo, ex_pc, ex_cat, ex_trace, ex_span, w_progress, w_saved,
             w_tasks, ex_elapsed, todo_reply, ex_runs, ex_dispatched, save_log,
             progress_reply>>

ex_hist == <<todo_reply, ex_runs, ex_dispatched, save_log, progress_reply>>

orch_vars == <<received_plans_storage, coordination_status, orch_reply>>

ws_vars == <<active_connections, ws_state, ws_inbox, bc_pc, bc_i, bc_message,
             bc_call, bc_count>>

vars == <<rc_vars, reg_vars, fs_vars, syn_vars, bus_vars, ex_vars, orch_vars,
          ws_vars>>

(***************************************************************************)
(* Bounds of the model.                                                    *)
(***************************************************************************)
MaxMaxRetries == 2      \* max_retries ranges over 0..MaxMaxRetries
NumThreads == 2         \* threads running the save_*_report tools and the clear
MaxCalls == 3           \* registry operations started in one behaviour
MaxTasks == 2           \* tasks per category of the plan
MaxProgress == 2        \* update_work_progress calls of one worker run
MaxApiEvents == 3       \* events published through the EventQueue methods
RecvTimeout == 2        \* the consumer's idle timeout T, in time units
MaxSynRuns == 2         \* run_synthesis_agent_tool calls in one behaviour
WorkerDeadline == 2     \* the overall deadline of one worker, in time units
MaxRuns == 2            \* execute_research_plan calls in one behaviour
MaxCitations == 1       \* items of data["citations"] before the optional long tail
MaxSearchResults == 1   \* items of data["search_results"] before the optional long tail

(***************************************************************************)
(* The retrying caller.                                                    *)
(***************************************************************************)

\* HTTP statuses the upstream answers with: 200, and the error statuses the
\* handler distinguishes (429, 401, 400) plus one other error status.
HttpErrorStatuses == {429, 401, 400, 500}

\* The body of a 200 answer: decodable with choices, not JSON, JSON that is
\* not an object, an object without choices, an object whose first choice is
\* not an object (choices[0].get raises AttributeError), a decodable object
\* with choices whose search_results hold an item that is not an object.
Bodies == {"ok", "bad_json", "not_dict", "no_choices", "bad_choice",
           "bad_search_result"}

\* requests.exceptions.RequestException raised by requests.post itself: its
\* own timeout after `timeout` seconds, or a connection failure.
RequestExceptions == {"request_timeout", "connection_error"}

RECURSIVE Pow2(_)
Pow2(n) == IF n = 0 THEN 1 ELSE 2 * Pow2(n - 1)

\* time.sleep(2 ** attempt)
BackoffLinear(attempt) == 2 * attempt
Backoff(attempt) == Pow2(attempt)

\* requests.Response.__bool__ returns self.ok: a response is truthy exactly
\* when its status is below 400.  `e.response` in `if hasattr(e, 'response')
\* and e.response:` is evaluated in a boolean context.
ResponseTruthy(status) == status < 400

\* `if attempt < max_retries: time.sleep(wait); continue` else `return kind`
RetryOrReturnOnceMore(wait, kind) ==
    IF rc_attempt <= rc_max_retries
    THEN /\ rc_delays' = Append(rc_delays, wait)
         /\ rc_attempt' = rc_attempt + 1
         /\ rc_pc' = "loop"
         /\ rc_result' = rc_result
    ELSE /\ rc_pc' = "done"
         /\ rc_result' = kind
         /\ UNCHANGED <<rc_delays, rc_attempt>>
RetryOrReturn(wait, kind) ==
    IF rc_attempt < rc_max_retries
    THEN /\ rc_delays' = Append(rc_delays, wait)
         /\ rc_attempt' = rc_attempt + 1
         /\ rc_pc' = "loop"
         /\ rc_result' = rc_result
    ELSE /\ rc_pc' = "done"
         /\ rc_result' = kind
         /\ UNCHANGED <<rc_delays, rc_attempt>>

\* `return kind` from inside the loop
ReturnOrRetry(kind) == RetryOrReturn(1, kind)
Return(kind) ==
    /\ rc_pc' = "done"
    /\ rc_result' = kind
    /\ UNCHANGED <<rc_delays, rc_attempt>>

\* One attempt is made: requests.post is submitted to the executor.
Submitted(outcome) ==
    /\ rc_pc = "loop"
    /\ rc_attempt <= rc_max_retries
    /\ rc_attempts' = rc_attempts + 1
    /\ rc_outcomes' = Append(rc_outcomes, outcome)
    /\ UNCHANGED <<rc_api_key, rc_max_retries>>

\* _call_perplexity_api(query, timeout, max_retries): entry, up to the loop.
RcCallNoKeyTest(key, mr) ==
    /\ rc_pc = "idle"
    /\ rc_api_key' = key
    /\ rc_max_retries' = mr
    /\ rc_attempt' = 0
    /\ rc_attempts' = 0
    /\ rc_delays' = <<>>
    /\ rc_outcomes' = <<>>
    /\ rc_citations' = <<>> /\ rc_search_results' = <<>> /\ rc_sources' = <<>>
    /\ rc_pc' = "loop" /\ rc_result' = "none"
RcCall(key, mr) ==
    /\ rc_pc = "idle"
    /\ rc_api_key' = key
    /\ rc_max_retries' = mr
    /\ rc_attempt' = 0
    /\ rc_attempts' = 0
    /\ rc_delays' = <<>>
    /\ rc_outcomes' = <<>>
    /\ rc_citations' = <<>> /\ rc_search_results' = <<>> /\ rc_sources' = <<>>
    /\ IF ~key
       THEN rc_pc' = "done" /\ rc_result' = "UpstreamUnavailable"
       ELSE rc_pc' = "loop" /\ rc_result' = "none"

\* future.result(timeout=timeout + 5) raises concurrent.futures.TimeoutError.
RcAttemptTimeout ==
    /\ Submitted([kind |-> "timeout"])
    /\ RetryOrReturn(Backoff(rc_attempt), "Timeout")
    /\ UNCHANGED rc_extracted

\* response.raise_for_status() raises HTTPError for a status of 400..599.
RcAttemptHttpError(status) ==
    /\ Submitted([kind |-> "http", status |-> status])
    /\ IF ResponseTruthy(status)
       THEN CASE status = 429 -> RetryOrReturn(Backoff(rc_attempt), "RateLimited")
              [] status = 401 -> Return("Unauthorized")
              [] status = 400 -> Return("BadRequest")
              [] OTHER -> RetryOrReturn(1, "HttpError")
       ELSE Return("HttpErrorNoResponse")
    /\ UNCHANGED rc_extracted

\* requests.post raises a RequestException that is not an HTTPError (a
\* connection error, or requests' own Timeout after `timeout` seconds).
RcAttemptRequestException(exc) ==
    /\ Submitted([kind |-> exc])
    /\ RetryOrReturn(Backoff(rc_attempt), "NetworkFailed")
    /\ UNCHANGED rc_extracted

\* An item of data["citations"] or data["search_results"]: a str (the URL
\* itself), a dict (url = "" when it has no 'url' key or a falsy one), or a
\* JSON value of another type.
Str(url) == [type |-> "str", url |-> url]
Dict(url) == [type |-> "dict", url |-> url]
Other == [type |-> "other", url |-> ""]

CitationItems == {Str("u1"), Str("u2"), Dict("u2"), Dict(""), Other}
SearchResultItems == {Dict("u1"), Dict("u9"), Dict(""), Other}

\* A tail of more distinct URLs than the extraction keeps.
LongCitations == <<Str("u1"), Str("u2"), Str("u3"), Str("u4"), Str("u5"), Str("u6")>>
LongSearchResults ==
    <<Dict("u1"), Dict("u2"), Dict("u3"), Dict("u4"), Dict("u5"), Dict("u6")>>

SeqsUpTo(S, n) == UNION {[1..k -> S] : k \in 0..n}

CitationLists ==
    {head \o tail : head \in SeqsUpTo(CitationItems, MaxCitations),
                    tail \in {<<>>, LongCitations}}
SearchResultLists ==
    {head \o tail : head \in SeqsUpTo(SearchResultItems, MaxSearchResults),
                    tail \in {<<>>, LongSearchResults}}

\* unique_urls[:5]
MaxSources == 5

\* `isinstance(citation, str)` or `isinstance(citation, dict) and citation.get('url')`
CitationHasUrl(citation) ==
    \/ citation.type = "str"
    \/ (citation.type = "dict" /\ citation.url # "")

\* `result.get('url')` is truthy
ResultHasUrl(result) == result.url # ""

UrlsIn(items) == [i \in 1..Len(items) |-> items[i].url]

\* all_urls after both loops
AllUrlsFromBoth(citations, search_results) ==
    UrlsIn(SelectSeq(citations, CitationHasUrl))
        \o UrlsIn(SelectSeq(search_results, ResultHasUrl))
AllUrls(citations, search_results) ==
    LET from_citations == UrlsIn(SelectSeq(citations, CitationHasUrl))
    IN  IF from_citations = <<>>
        THEN UrlsIn(SelectSeq(search_results, ResultHasUrl))
        ELSE from_citations

AllDicts(search_results) ==
    \A i \in 1..Len(search_results) : search_results[i].type = "dict"

\* The second loop runs and meets an item without a get method.
SearchResultsRaise(citations, search_results) ==
    /\ SelectSeq(citations, CitationHasUrl) = <<>>
    /\ \E i \in 1..Len(search_results) : search_results[i].type # "dict"

\* `for url in all_urls: if url not in unique_urls: unique_urls.append(url)`
RECURSIVE UniqueUrls(_, _)
UniqueUrls(all_urls, unique_urls) ==
    IF all_urls = <<>>
    THEN unique_urls
    ELSE UniqueUrls(Tail(all_urls),
                    IF \E i \in 1..Len(unique_urls) : unique_urls[i] = Head(all_urls)
                    THEN unique_urls
                    ELSE Append(unique_urls, Head(all_urls)))

\* [f"- {url}" for url in unique_urls[:5]]
SourceLinks(unique_urls) ==
    [i \in 1..(IF Len(unique_urls) < MaxSources THEN Len(unique_urls) ELSE MaxSources)
        |-> "- " \o unique_urls[i]]

\* The answer has a status below 400: the body is decoded.
RcAttemptResponse(body) ==
    /\ Submitted([kind |-> "response", body |-> body])
    /\ CASE body = "bad_json" -> Return("InvalidJSON") /\ UNCHANGED rc_extracted
         [] body = "not_dict" -> Return("UnexpectedFormat") /\ UNCHANGED rc_extracted
         [] body = "no_choices" -> Return("NoContent") /\ UNCHANGED rc_extracted
         [] body = "bad_choice" -> Return("Unexpected") /\ UNCHANGED rc_extracted
         [] OTHER ->
              \E citations \in CitationLists, search_results \in SearchResultLists :
                 /\ (body = "ok") <=> AllDicts(search_results)
                 /\ rc_citations' = citations
                 /\ rc_search_results' = search_results
                 /\ IF SearchResultsRaise(citations, search_results)
                    THEN Return("Unexpected") /\ rc_sources' = <<>>
                    ELSE /\ Return("Success")
                         /\ rc_sources' =
                               SourceLinks(UniqueUrls(AllUrls(citations, search_results), <<>>))

\* The caller has the returned string; the per-call state is discarded.
RcReturn ==
    /\ rc_pc = "done"
    /\ rc_pc' = "idle"
    /\ rc_result' = "none"
    /\ rc_attempt' = 0
    /\ rc_attempts' = 0
    /\ rc_delays' = <<>>
    /\ rc_outcomes' = <<>>
    /\ rc_citations' = <<>> /\ rc_search_results' = <<>> /\ rc_sources' = <<>>
    /\ UNCHANGED <<rc_api_key, rc_max_retries>>

RcIdle ==
    /\ rc_pc = "idle"
    /\ rc_api_key = TRUE
    /\ rc_max_retries = 0
    /\ rc_attempt = 0
    /\ rc_attempts = 0
    /\ rc_delays = <<>>
    /\ rc_outcomes = <<>>
    /\ rc_result = "none"
    /\ rc_citations = <<>> /\ rc_search_results = <<>> /\ rc_sources = <<>>

RcNext ==
    \/ \E key \in BOOLEAN, mr \in 0..MaxMaxRetries : RcCall(key, mr)
    \/ RcAttemptTimeout
    \/ \E status \in HttpErrorStatuses : RcAttemptHttpError(status)
    \/ \E exc \in RequestExceptions : RcAttemptRequestException(exc)
    \/ \E body \in Bodies : RcAttemptResponse(body)
    \/ RcReturn

(***************************************************************************)
(* The artifact registry.                                                  *)
(***************************************************************************)
NoOne == 0
Threads == 1..NumThreads
SynId == NumThreads + 1         \* the synthesis agent's combine_reports
Procs == 1..(NumThreads + 1)

CompetitionPath == "reports/competition_report.md"
PricePath == "reports/price_report.md"
LegalPath == "reports/legal_report.md"
FinalPath == "reports/final_report.md"

\* The registering tools and the path each one registers.
SaveOps == {"save_competition_report", "save_price_report",
            "save_legal_report", "save_final_report"}
PathOf(op) ==
    CASE op = "save_competition_report" -> CompetitionPath
      [] op = "save_price_report" -> PricePath
      [] op = "save_legal_report" -> LegalPath
      [] OTHER -> FinalPath

Elems(seq) == {seq[i] : i \in 1..Len(seq)}

\* The report files.  A text is a sequence of chunks, one per write or `+=`.
AllPaths == {CompetitionPath, PricePath, LegalPath, FinalPath}
NoFile == [exists |-> FALSE, text |-> <<>>]
File(text) == [exists |-> TRUE, text |-> text]

\* The `content` argument of a save_*_report call.
ReportText(path) == <<"content of " \o path>>

\* The `content` argument of the save_*_report call of a worker in the
\* n-th execute_research_plan: each run writes a report of its own.
ReportDraft(path, n) == <<"content of " \o path \o ", draft " \o ToString(n)>>

WriteFileAppends(fs, path, text, ok) ==
    IF ok THEN [fs EXCEPT ![path] = File(@.text \o text)] ELSE fs

\* `with open(file_path, 'w') as f: f.write(content)`: the file is replaced;
\* when the write raises, the tool returns an error text and no file is left.
WriteFile(fs, path, text, ok) ==
    IF ok THEN [fs EXCEPT ![path] = File(text)] ELSE fs

\* What a save_*_report tool returns: its confirmation text when the write
\* succeeded, its error text otherwise.
Returned(path, ok) ==
    IF ok THEN "report saved successfully to " \o path
    ELSE "Error saving report"

\* One entry of save_log: the path, whether the call found it absent from
\* the registry (and so appended it), and the returned text.
Logged(path, newly, returned) ==
    [path |-> path, newly |-> newly, returned |-> returned]

\* `with storage_lock:` is entered only while nobody holds the lock.
LockIgnored == TRUE
LockFree == lock = NoOne

\* `file_path not in report_filepaths_storage`
NotInAlways(path, storage) == TRUE
NotIn(path, storage) == path \notin Elems(storage)

\* A thread calls one of the save_*_report tools.
CallSave(t, op) ==
    /\ t_pc[t] = "idle"
    /\ calls < MaxCalls
    /\ calls' = calls + 1
    /\ t_pc' = [t_pc EXCEPT ![t] = "wait"]
    /\ t_op' = [t_op EXCEPT ![t] = op]
    /\ t_path' = [t_path EXCEPT ![t] = PathOf(op)]
    /\ UNCHANGED <<registry, lock, t_absent, completed>>

\* A thread calls clear_report_filepaths.
CallClear(t) ==
    /\ t_pc[t] = "idle"
    /\ calls < MaxCalls
    /\ calls' = calls + 1
    /\ t_pc' = [t_pc EXCEPT ![t] = "wait"]
    /\ t_op' = [t_op EXCEPT ![t] = "clear_report_filepaths"]
    /\ UNCHANGED <<registry, lock, t_path, t_absent, completed>>

\* `with storage_lock:` acquires the lock.
Acquire(t) ==
    /\ t_pc[t] = "wait"
    /\ LockFree
    /\ lock' = t
    /\ t_pc' = [t_pc EXCEPT ![t] = "locked"]
    /\ UNCHANGED <<registry, t_op, t_path, t_absent, completed, calls>>

\* `if file_path not in report_filepaths_storage:`; combine_reports first
\* writes combined_content to output_path, inside the same `with` block.
Check(t) ==
    /\ t_pc[t] = "locked"
    /\ t_op[t] # "clear_report_filepaths"
    /\ files' = IF t_op[t] = "combine_reports"
                THEN WriteFile(files, t_path[t], syn_combined, TRUE)
                ELSE files
    /\ t_absent' = [t_absent EXCEPT ![t] = NotIn(t_path[t], registry)]
    /\ t_pc' = [t_pc EXCEPT ![t] = "checked"]
    /\ UNCHANGED <<registry, lock, t_op, t_path, completed, calls>>

\* `report_filepaths_storage.append(file_path)`, when the test was true.
AppendPath(t) ==
    /\ t_pc[t] = "checked"
    /\ registry' = IF t_absent[t] THEN Append(registry, t_path[t]) ELSE registry
    /\ t_pc' = [t_pc EXCEPT ![t] = "release"]
    /\ UNCHANGED <<lock, t_op, t_path, t_absent, completed, calls>>

\* `report_filepaths_storage.clear()`
ClearStorage(t) ==
    /\ t_pc[t] = "locked"
    /\ t_op[t] = "clear_report_filepaths"
    /\ registry' = <<>>
    /\ completed' = <<>>
    /\ t_pc' = [t_pc EXCEPT ![t] = "release"]
    /\ UNCHANGED <<lock, t_op, t_path, t_absent, calls>>

\* The `with` block is left: the lock is released; a save_*_report tool goes
\* on to write its file (ok: the write succeeds) and returns.
Release(t, ok) ==
    /\ t_pc[t] = "release"
    /\ files' = IF t_op[t] \in SaveOps
                THEN WriteFile(files, t_path[t], ReportText(t_path[t]), ok)
                ELSE files
    /\ lock' = IF lock = t THEN NoOne ELSE lock
    /\ completed' = IF t_op[t] = "clear_report_filepaths"
                    THEN completed ELSE Append(completed, t_path[t])
    /\ t_pc' = [t_pc EXCEPT ![t] = "idle"]
    /\ t_op' = [t_op EXCEPT ![t] = "none"]
    /\ t_path' = [t_path EXCEPT ![t] = "none"]
    /\ t_absent' = [t_absent EXCEPT ![t] = FALSE]
    /\ UNCHANGED <<registry, calls>>

(***************************************************************************)
(* The synthesizer: run_synthesis_agent_tool hands the registry to         *)
(* run_synthesis_agent, SynthesisAgent.run writes it into the prompt, and  *)
(* the agent calls combine_reports with the list of the prompt.            *)
(***************************************************************************)

\* The section delimiter and the placeholder of combine_reports.
Delimiter == "\n\n---\n\n"
MissingFile(path) == "# Missing file: " \o path \o "\n"

\* One iteration of `for path in filepaths:`: what is added to
\* combined_content for one path.
SectionOnlyIfExists(fs, path) ==
    IF fs[path].exists THEN <<Delimiter>> \o fs[path].text ELSE <<>>
Section(fs, path) ==
    IF fs[path].exists
    THEN <<Delimiter>> \o fs[path].text
    ELSE <<Delimiter, MissingFile(path)>>

\* The files of the workers' reports.
WorkerFiles(fs) == [p \in AllPaths \ {FinalPath} |-> fs[p]]

\* run_synthesis_agent_tool is called and calls
\* run_synthesis_agent(report_filepaths_storage): the argument is the list
\* object itself; no copy is taken and storage_lock is not held.  Nothing is
\* tested before the call.
SynHandOver ==
    /\ syn_pc \in {"idle", "done"}
    /\ syn_runs < MaxSynRuns
    /\ syn_runs' = syn_runs + 1
    /\ syn_pc' = "handed"
    /\ syn_handover' = registry
    /\ syn_filepaths' = <<>>
    /\ syn_iterated' = <<>>
    /\ syn_combined' = <<>>
    /\ UNCHANGED <<syn_log, files>>
    /\ UNCHANGED reg_vars

\* SynthesisAgent() is constructed, then SynthesisAgent.run formats
\* `filepaths` (still the shared list) into the prompt.
SynPrompt ==
    /\ syn_pc = "handed"
    /\ syn_filepaths' = registry
    /\ syn_pc' = "prompted"
    /\ UNCHANGED <<syn_handover, syn_iterated, syn_combined, syn_runs, syn_log, files>>
    /\ UNCHANGED reg_vars

\* The agent calls combine_reports(filepaths) with the list of its prompt:
\* combined_content = "".
SynCombineCall ==
    /\ syn_pc = "prompted"
    /\ syn_pc' = "combining"
    /\ syn_iterated' = <<>>
    /\ syn_combined' = <<>>
    /\ UNCHANGED <<syn_handover, syn_filepaths, syn_runs, syn_log, files>>
    /\ UNCHANGED reg_vars

\* `for path in filepaths:` one iteration: the file is read, or the
\* placeholder is added.
SynIterate ==
    /\ syn_pc = "combining"
    /\ Len(syn_iterated) < Len(syn_filepaths)
    /\ LET path == syn_filepaths[Len(syn_iterated) + 1]
       IN  /\ syn_combined' = syn_combined \o Section(files, path)
           /\ syn_iterated' = Append(syn_iterated, path)
    /\ UNCHANGED <<syn_pc, syn_handover, syn_filepaths, syn_runs, syn_log, files>>
    /\ UNCHANGED reg_vars

\* The loop is over: combine_reports reaches `with storage_lock:` to write
\* the output and to register output_path.
SynRegister ==
    /\ syn_pc = "combining"
    /\ Len(syn_iterated) = Len(syn_filepaths)
    /\ t_pc[SynId] = "idle"
    /\ syn_pc' = "registering"
    /\ t_pc' = [t_pc EXCEPT ![SynId] = "wait"]
    /\ t_op' = [t_op EXCEPT ![SynId] = "combine_reports"]
    /\ t_path' = [t_path EXCEPT ![SynId] = FinalPath]
    /\ UNCHANGED <<registry, lock, t_absent, completed, calls>>
    /\ UNCHANGED <<syn_handover, syn_filepaths, syn_iterated, syn_combined, syn_runs,
                   syn_log, files>>

\* combine_reports returns output_path and run_synthesis_agent_tool returns.
SynDone ==
    /\ syn_pc = "registering"
    /\ t_pc[SynId] = "idle"
    /\ syn_pc' = "done"
    /\ syn_log' = Append(syn_log, [before |-> syn_handover,
                                   input |-> syn_filepaths,
                                   text |-> syn_combined,
                                   after |-> registry,
                                   worker_files |-> WorkerFiles(files)])
    /\ UNCHANGED <<syn_handover, syn_filepaths, syn_iterated, syn_combined, syn_runs,
                   files>>
    /\ UNCHANGED reg_vars

(***************************************************************************)
(* The event bus.                                                          *)
(***************************************************************************)

\* asyncio.Queue() is built without maxsize: 0, which means unbounded.
QueueMaxSize == 0

\* asyncio.Queue.full()
Full(q) == QueueMaxSize > 0 /\ Len(q) >= QueueMaxSize

\* StreamEvent: eventId, agentName, eventType, traceId, spanId, parentSpanId
\* (timestamp and payload are not modelled).
Event(id, agent, type, trace, span, parent) ==
    [eventId |-> id, agentName |-> agent, eventType |-> type,
     traceId |-> trace, spanId |-> span, parentSpanId |-> parent,
     display_message |-> ""]

\* parent_span_id = "planner": a fixed text, which is not the str of any
\* uuid4 (those are numbered from 1 here).
PlannerSpanId == -1

NoEvent == Event(0, "none", "none", 0, 0, 0)

\* asyncio.Queue.put_nowait(event): raises QueueFull on a full queue, else
\* appends the event at the tail.
QueuePutNowaitAtHead(q, ev) ==
    IF Full(q) THEN [raised |-> TRUE, q |-> q]
    ELSE [raised |-> FALSE, q |-> <<ev>> \o q]
QueuePutNowait(q, ev) ==
    IF Full(q) THEN [raised |-> TRUE, q |-> q]
    ELSE [raised |-> FALSE, q |-> Append(q, ev)]

\* asyncio.Queue.get() on a non-empty queue: removes and returns the head.
QueueGetPeek(q) == [item |-> Head(q), q |-> q]
QueueGetNewest(q) == [item |-> q[Len(q)], q |-> SubSeq(q, 1, Len(q) - 1)]
QueueGet(q) == [item |-> Head(q), q |-> Tail(q)]

\* `try: event_queue.get_queue().put_nowait(event.dict())` followed by
\* `except Exception: <log>`: the event is queued, or dropped and logged.
Publish(ev) ==
    LET r == QueuePutNowait(queue, ev)
    IN  /\ queue' = r.q
        /\ history' = IF r.raised THEN history ELSE Append(history, ev)
        /\ dropped' = IF r.raised THEN dropped + 1 ELSE dropped

\* EventQueue.put_nowait(event), called by a producer in a sync context.
put_nowait ==
    /\ api_puts < MaxApiEvents
    /\ LET ev == Event(uuids + 1, "SyncProducer", "thought_delta", 0, 0, PlannerSpanId)
       IN  /\ Publish(ev)
           /\ last_put' = [event |-> ev, full |-> Full(queue), escaped |-> FALSE]
    /\ uuids' = uuids + 1
    /\ api_puts' = api_puts + 1
    /\ UNCHANGED <<received, c_pc, c_waited, m_pc, m_received>>

\* StreamingCallbackHandler.on_thought_delta(text, span_id): builds the event
\* and awaits EventQueue.put, which waits while the queue is full.
on_thought_delta ==
    /\ api_puts < MaxApiEvents
    /\ ~Full(queue)
    /\ LET ev == Event(uuids + 1, "CallbackAgent", "thought_delta", 0, 0, PlannerSpanId)
       IN  /\ queue' = Append(queue, ev)
           /\ history' = Append(history, ev)
    /\ uuids' = uuids + 1
    /\ api_puts' = api_puts + 1
    /\ UNCHANGED <<dropped, last_put, received, c_pc, c_waited, m_pc, m_received>>

\* The consumer calls `await event_queue.get()`.
get_call ==
    /\ c_pc = "idle"
    /\ c_pc' = "in_get"
    /\ c_waited' = 0
    /\ UNCHANGED <<queue, history, dropped, last_put, uuids, received, api_puts, m_pc, m_received>>

\* EventQueue.get returns: `await self._queue.get()` has an event.
get_return ==
    /\ c_pc = "in_get"
    /\ queue # <<>>
    /\ LET r == QueueGet(queue)
       IN  /\ queue' = r.q
           /\ received' = Append(received, r.item)
    /\ c_pc' = "idle"
    /\ c_waited' = 0
    /\ UNCHANGED <<history, dropped, last_put, uuids, api_puts, m_pc, m_received>>

\* A time unit passes while the consumer is suspended in
\* `await self._queue.get()` on an empty queue: the await has no timeout, so
\* nothing else happens to the consumer.
get_wait ==
    /\ c_pc = "in_get"
    /\ queue = <<>>
    /\ c_waited <= RecvTimeout
    /\ c_waited' = c_waited + 1
    /\ UNCHANGED <<queue, history, dropped, last_put, uuids, received, c_pc, api_puts,
                   m_pc, m_received>>

\* The polling consumer (a monitor thread) tests
\* `not event_queue.get_queue().empty()`.
monitor_check ==
    /\ m_pc = "idle"
    /\ queue # <<>>
    /\ m_pc' = "checked"
    /\ UNCHANGED <<queue, history, dropped, last_put, uuids, received, c_pc,
                   c_waited, api_puts, m_received>>

\* The polling consumer calls get_nowait(): it gets the head, or QueueEmpty
\* (caught and ignored) when the queue was emptied since the test.
monitor_get_nowait ==
    /\ m_pc = "checked"
    /\ IF queue = <<>>
       THEN UNCHANGED <<queue, m_received>>
       ELSE LET r == QueueGet(queue)
            IN  /\ queue' = r.q
                /\ m_received' = Append(m_received, r.item)
    /\ m_pc' = "idle"
    /\ UNCHANGED <<history, dropped, last_put, uuids, received, c_pc,
                   c_waited, api_puts>>

BusIdle ==
    /\ queue = <<>>
    /\ history = <<>>
    /\ dropped = 0
    /\ last_put = [event |-> NoEvent, full |-> FALSE, escaped |-> FALSE]
    /\ uuids = 0
    /\ received = <<>>
    /\ c_pc = "idle"
    /\ c_waited = 0
    /\ api_puts = 0
    /\ m_pc = "idle"
    /\ m_received = <<>>

(***************************************************************************)
(* The coordinator: update_todo_list and execute_research_plan with the    *)
(* workers it runs.                                                        *)
(***************************************************************************)
Categories == <<"competition_tasks", "market_tasks", "price_tasks", "legal_tasks">>
CategorySet == {Categories[i] : i \in 1..Len(Categories)}

\* The agent_name and the worker function of each category.
AgentName(cat) ==
    CASE cat = "competition_tasks" -> "CompetitionAgent"
      [] cat = "market_tasks" -> "MarketAgent"
      [] cat = "price_tasks" -> "PriceAgent"
      [] OTHER -> "LegalAgent"

SaveOpOf(cat) ==
    CASE cat = "competition_tasks" -> "save_competition_report"
      [] cat = "price_tasks" -> "save_price_report"
      [] OTHER -> "save_legal_report"

\* run_market_agent is a plain function returning a string; the other
\* worker functions are async generators.
IsAsyncGenerator(cat) == cat # "market_tasks"

\* The category whose `if` statement execute_research_plan has reached.
FirstCategory == Categories[1]
CurrentCategory == Categories[ex_cat]

\* `with storage_lock: if file_path not in storage: storage.append(file_path)`
\* run without interruption.
Register(storage, path) ==
    IF NotIn(path, storage) THEN Append(storage, path) ELSE storage

\* span_id = str(uuid.uuid4()) in stream_and_capture_report
SpanIdIsTraceId(fresh) == ex_trace
SpanId(fresh) == fresh

\* The categories that the "Invalid category" message lists.
ValidCategoriesNamed ==
    <<"competition_tasks", "market_tasks", "price_tasks", "legal_tasks">>

Invalid(category) == [kind |-> "invalid", category |-> category,
                      valid |-> ValidCategoriesNamed]
\* The confirmation message; of its text the total it reports is kept:
\* "... Total tasks in this category: {len(todo_list_storage[category])}".
Added(total) == [kind |-> "added", total |-> total]
NoReply == [kind |-> "none"]

\* update_todo_list(category, tasks) with n tasks.
\* The `tasks` argument of a call that gives n tasks for a category: n new
\* task texts, named by their number of arrival in that category.
NewTasks(list, n) == [i \in 1..n |-> "task " \o ToString(Len(list) + i)]

update_todo_list_any_key(category, n) ==
    /\ Len(IF category \in DOMAIN todo THEN todo[category] ELSE <<>>) + n <= MaxTasks
    /\ todo' = [c \in DOMAIN todo \cup {category} |->
                  (IF c \in DOMAIN todo THEN todo[c] ELSE <<>>)
                     \o (IF c = category
                         THEN NewTasks(IF c \in DOMAIN todo THEN todo[c] ELSE <<>>, n)
                         ELSE <<>>)]
    /\ todo_reply' = Added(Len(todo'[category]))
    /\ UNCHANGED <<ex_runs, ex_dispatched, save_log, progress_reply>>
    /\ UNCHANGED <<ex_pc, ex_cat, ex_trace, ex_span, w_progress, w_saved, w_tasks,
                   ex_elapsed>>
    /\ UNCHANGED <<bus_vars, registry, files>>
update_todo_list_at_front(category, n) ==
    /\ IF category \notin DOMAIN todo
       THEN /\ todo' = todo
            /\ todo_reply' = Invalid(category)
       ELSE /\ Len(todo[category]) + n <= MaxTasks
            /\ todo' = [todo EXCEPT ![category] = NewTasks(@, n) \o @]
            /\ todo_reply' = Added(Len(todo'[category]))
    /\ UNCHANGED <<ex_runs, ex_dispatched, save_log, progress_reply>>
    /\ UNCHANGED <<ex_pc, ex_cat, ex_trace, ex_span, w_progress, w_saved, w_tasks,
                   ex_elapsed>>
    /\ UNCHANGED <<bus_vars, registry, files>>
update_todo_list(category, n) ==
    /\ IF category \notin DOMAIN todo
       THEN /\ todo' = todo
            /\ todo_reply' = Invalid(category)
       ELSE /\ Len(todo[category]) + n <= MaxTasks
            /\ todo' = [todo EXCEPT ![category] = @ \o NewTasks(@, n)]
            /\ todo_reply' = Added(Len(todo'[category]))
    /\ UNCHANGED <<ex_runs, ex_dispatched, save_log, progress_reply>>
    /\ UNCHANGED <<ex_pc, ex_cat, ex_trace, ex_span, w_progress, w_saved, w_tasks,
                   ex_elapsed>>
    /\ UNCHANGED <<bus_vars, registry, files>>

\* The next `if todo_list_storage[...]:` statement, or the return.
Advance ==
    IF ex_cat < Len(Categories)
    THEN ex_pc' = "dispatch" /\ ex_cat' = ex_cat + 1
    ELSE ex_pc' = "done" /\ ex_cat' = ex_cat

\* execute_research_plan is called: trace_id = str(uuid.uuid4()).
ExBegin ==
    /\ ex_pc \in {"idle", "done", "failed"}
    /\ ex_runs < MaxRuns
    /\ ex_runs' = ex_runs + 1
    /\ UNCHANGED <<todo_reply, ex_dispatched, save_log, progress_reply>>
    /\ ex_trace' = uuids + 1
    /\ uuids' = uuids + 1
    /\ ex_pc' = "dispatch"
    /\ ex_cat' = 1
    /\ UNCHANGED <<todo, ex_span, w_progress, w_saved, registry, files,
                   w_tasks, ex_elapsed>>
    /\ UNCHANGED <<queue, history, dropped, last_put, received, c_pc, c_waited, api_puts,
                   m_pc, m_received>>

\* `if todo_list_storage[category]:` is false.
ExSkip ==
    /\ UNCHANGED ex_hist
    /\ ex_pc = "dispatch"
    /\ todo[CurrentCategory] = <<>>
    /\ Advance
    /\ UNCHANGED <<todo, ex_trace, ex_span, w_progress, w_saved, registry, files,
                   w_tasks, ex_elapsed>>
    /\ UNCHANGED bus_vars

\* stream_and_capture_report starts: span_id is drawn and thought_start is
\* sent.
ExStart ==
    /\ ex_pc = "dispatch"
    /\ todo[CurrentCategory] # <<>>
    /\ ex_dispatched' = [ex_dispatched EXCEPT ![CurrentCategory] = Len(todo[CurrentCategory])]
    /\ UNCHANGED <<todo_reply, ex_runs, save_log, progress_reply>>
    /\ ex_span' = SpanId(uuids + 1)
    /\ Publish(Event(uuids + 2, AgentName(CurrentCategory), "thought_start",
                     ex_trace, ex_span', PlannerSpanId))
    /\ uuids' = uuids + 2
    /\ ex_pc' = "running"
    /\ w_progress' = 0
    /\ w_saved' = FALSE
    /\ w_tasks' = Len(todo[CurrentCategory])
    /\ UNCHANGED <<todo, ex_cat, ex_trace, registry, files, ex_elapsed>>
    /\ UNCHANGED <<last_put, received, c_pc, c_waited, api_puts, m_pc, m_received>>

\* `async for event in agent_function(tasks)` over the string that
\* run_market_agent returns raises TypeError, which the caller catches and
\* logs; stream_and_capture_report is left before its thought_end.
MarketTypeError ==
    /\ UNCHANGED ex_hist
    /\ ex_pc = "running"
    /\ ~IsAsyncGenerator(CurrentCategory)
    /\ Advance
    /\ UNCHANGED <<todo, ex_trace, ex_span, w_progress, w_saved, registry, files,
                   w_tasks, ex_elapsed>>
    /\ UNCHANGED bus_vars

\* run_*_agent with len(tasks) != 2 yields one error event and returns.
WorkerRejectsAfterProgress ==
    /\ UNCHANGED <<todo_reply, ex_runs, ex_dispatched, save_log, progress_reply>>
    /\ ex_pc = "running"
    /\ IsAsyncGenerator(CurrentCategory)
    /\ w_tasks # 2
    /\ ex_pc' = "ending"
    /\ Publish(Event(uuids + 3, AgentName(CurrentCategory), "tool_call",
                     uuids + 1, uuids + 2, PlannerSpanId))
    /\ uuids' = uuids + 3
    /\ UNCHANGED <<todo, ex_cat, ex_trace, ex_span, w_progress, w_saved, registry, files,
                   w_tasks, ex_elapsed>>
    /\ UNCHANGED <<last_put, received, c_pc, c_waited, api_puts, m_pc, m_received>>
WorkerRejects ==
    /\ UNCHANGED ex_hist
    /\ ex_pc = "running"
    /\ IsAsyncGenerator(CurrentCategory)
    /\ w_tasks # 2
    /\ ex_pc' = "ending"
    /\ UNCHANGED <<todo, ex_cat, ex_trace, ex_span, w_progress, w_saved, registry, files,
                   w_tasks, ex_elapsed>>
    /\ UNCHANGED bus_vars

\* The worker raises an exception that is not a TypeError (the agent's
\* constructor or its stream fails): it leaves stream_and_capture_report and
\* execute_research_plan.
WorkerRaises ==
    /\ UNCHANGED ex_hist
    /\ ex_pc = "running"
    /\ IsAsyncGenerator(CurrentCategory)
    /\ w_tasks = 2
    /\ ex_pc' = "failed"
    /\ UNCHANGED <<todo, ex_cat, ex_trace, ex_span, w_progress, w_saved, registry, files,
                   w_tasks, ex_elapsed>>
    /\ UNCHANGED bus_vars

\* The worker's agent calls update_work_progress: one tool_call event with a
\* traceId and a spanId of its own.
\* The arguments of the worker's n-th update_work_progress call.
ProgressStatus(n) == IF n = 1 THEN "started" ELSE "in_progress"
ProgressMessage(n) == "step " \o ToString(n)
ProgressTask(cat) == cat

\* The StreamEvent that update_work_progress builds.
ProgressEvent(id, agent, trace, span, message) ==
    [Event(id, agent, "tool_call", trace, span, PlannerSpanId)
        EXCEPT !.display_message = message]

\* `return f"Work progress updated: {status} - {task}"`
ProgressUpdated(status, task) == "Work progress updated: " \o status \o " - " \o task

update_work_progress_as_planner ==
    /\ UNCHANGED <<todo_reply, ex_runs, ex_dispatched, save_log>>
    /\ ex_pc = "running"
    /\ IsAsyncGenerator(CurrentCategory)
    /\ w_tasks = 2
    /\ w_progress < MaxProgress
    /\ Publish(ProgressEvent(uuids + 3, "PlannerAgent", uuids + 1, uuids + 2,
                             ProgressMessage(w_progress + 1)))
    /\ progress_reply' = ProgressUpdated(ProgressStatus(w_progress + 1),
                                         ProgressTask(CurrentCategory))
    /\ uuids' = uuids + 3
    /\ w_progress' = w_progress + 1
    /\ UNCHANGED <<todo, ex_pc, ex_cat, ex_trace, ex_span, w_saved, registry, files,
                   w_tasks, ex_elapsed>>
    /\ UNCHANGED <<last_put, received, c_pc, c_waited, api_puts, m_pc, m_received>>
update_work_progress ==
    /\ UNCHANGED <<todo_reply, ex_runs, ex_dispatched, save_log>>
    /\ ex_pc = "running"
    /\ IsAsyncGenerator(CurrentCategory)
    /\ w_tasks = 2
    /\ w_progress < MaxProgress
    /\ Publish(ProgressEvent(uuids + 3, AgentName(CurrentCategory), uuids + 1, uuids + 2,
                             ProgressMessage(w_progress + 1)))
    /\ progress_reply' = ProgressUpdated(ProgressStatus(w_progress + 1),
                                         ProgressTask(CurrentCategory))
    /\ uuids' = uuids + 3
    /\ w_progress' = w_progress + 1
    /\ UNCHANGED <<todo, ex_pc, ex_cat, ex_trace, ex_span, w_saved, registry, files,
                   w_tasks, ex_elapsed>>
    /\ UNCHANGED <<last_put, received, c_pc, c_waited, api_puts, m_pc, m_received>>

\* The worker's agent calls its save_*_report tool: the path is registered
\* under storage_lock, then the file is written (ok: the write succeeds).
save_report(ok) ==
    /\ UNCHANGED <<todo_reply, ex_runs, ex_dispatched, progress_reply>>
    /\ ex_pc = "running"
    /\ IsAsyncGenerator(CurrentCategory)
    /\ w_tasks = 2
    /\ ~w_saved
    /\ LockFree
    /\ LET path == PathOf(SaveOpOf(CurrentCategory))
       IN  /\ registry' = Register(registry, path)
           /\ files' = WriteFile(files, path, ReportDraft(path, ex_runs), ok)
           /\ save_log' = Append(save_log,
                                 Logged(path, NotIn(path, registry), Returned(path, ok)))
    /\ w_saved' = TRUE
    /\ UNCHANGED <<todo, ex_pc, ex_cat, ex_trace, ex_span, w_progress, w_tasks,
                   ex_elapsed>>
    /\ UNCHANGED bus_vars

\* The worker's event stream ends.
WorkerFinishes ==
    /\ UNCHANGED ex_hist
    /\ ex_pc = "running"
    /\ IsAsyncGenerator(CurrentCategory)
    /\ w_tasks = 2
    /\ ex_pc' = "ending"
    /\ UNCHANGED <<todo, ex_cat, ex_trace, ex_span, w_progress, w_saved, registry, files,
                   w_tasks, ex_elapsed>>
    /\ UNCHANGED bus_vars

\* stream_and_capture_report sends thought_end and returns.
ExEnd ==
    /\ UNCHANGED ex_hist
    /\ ex_pc = "ending"
    /\ Publish(Event(uuids + 1, AgentName(CurrentCategory), "thought_end",
                     ex_trace, ex_span, PlannerSpanId))
    /\ uuids' = uuids + 1
    /\ Advance
    /\ UNCHANGED <<todo, ex_trace, ex_span, w_progress, w_saved, registry, files,
                   w_tasks, ex_elapsed>>
    /\ UNCHANGED <<last_put, received, c_pc, c_waited, api_puts, m_pc, m_received>>

\* The running worker stops making progress: its stream yields nothing more
\* and does not end.  `async for event in agent_function(tasks)` has no
\* timeout, so execute_research_plan stays suspended in it.
WorkerStalls ==
    /\ UNCHANGED ex_hist
    /\ ex_pc = "running"
    /\ w_tasks = 2
    /\ ex_pc' = "stuck"
    /\ UNCHANGED <<todo, ex_cat, ex_trace, ex_span, w_progress, w_saved, w_tasks,
                   ex_elapsed, registry, files>>
    /\ UNCHANGED bus_vars

\* A time unit passes while the worker is stuck; nothing in
\* execute_research_plan watches the time.
DeadlinePasses ==
    /\ UNCHANGED ex_hist
    /\ ex_pc = "stuck"
    /\ ex_elapsed <= WorkerDeadline
    /\ ex_elapsed' = ex_elapsed + 1
    /\ UNCHANGED <<todo, ex_pc, ex_cat, ex_trace, ex_span, w_progress, w_saved,
                   w_tasks, registry, files>>
    /\ UNCHANGED bus_vars

\* clear_planner_todo_list(), which the context-clear endpoint calls: the
\* to-do list is replaced by an empty one and clear_report_filepaths()
\* empties the registry under storage_lock.  The event queue is not touched.
clear_planner_todo_list ==
    /\ LockFree
    /\ todo' = [c \in CategorySet |-> <<>>]
    /\ ex_dispatched' = [c \in CategorySet |-> 0]
    /\ save_log' = <<>>
    /\ UNCHANGED <<todo_reply, ex_runs, progress_reply>>
    /\ registry' = <<>>
    /\ UNCHANGED <<ex_pc, ex_cat, ex_trace, ex_span, w_progress, w_saved, w_tasks,
                   ex_elapsed, files>>
    /\ UNCHANGED bus_vars

ExIdle ==
    /\ todo = [c \in CategorySet |-> <<>>]
    /\ ex_pc = "idle"
    /\ ex_cat = 0
    /\ ex_trace = 0
    /\ ex_span = 0
    /\ w_progress = 0
    /\ w_saved = FALSE
    /\ w_tasks = 0
    /\ ex_elapsed = 0
    /\ todo_reply = NoReply
    /\ ex_runs = 0
    /\ ex_dispatched = [c \in CategorySet |-> 0]
    /\ save_log = <<>>
    /\ progress_reply = "none"


RegIdle ==
    /\ registry = <<>>
    /\ lock = NoOne
    /\ t_pc = [t \in Procs |-> "idle"]
    /\ t_op = [t \in Procs |-> "none"]
    /\ t_path = [t \in Procs |-> "none"]
    /\ t_absent = [t \in Procs |-> FALSE]
    /\ completed = <<>>
    /\ calls = 0

SynIdle ==
    /\ syn_pc = "idle"
    /\ syn_handover = <<>>
    /\ syn_filepaths = <<>>
    /\ syn_iterated = <<>>
    /\ syn_combined = <<>>
    /\ syn_runs = 0
    /\ syn_log = <<>>

\* No report has been written yet.
FsIdle == files = [p \in AllPaths |-> NoFile]

(***************************************************************************)
(* The orchestrator's plan store: store_research_plan,                     *)
(* get_coordination_status and update_coordination_status, each a call     *)
(* that runs from its first line to its return.                            *)
(***************************************************************************)
MaxPlans == 3           \* plans stored in one behaviour

\* plan_id = f"plan_{len(received_plans_storage) + 1}"
PlanIdOf(n) == "plan_" \o ToString(n)

\* The arguments the tools are called with.  "" is a plan_id that `if plan_id:`
\* takes for absent (None, the default, or the empty string).
PlanData == {"plan A", "plan B"}
SourceAgents == {"Unknown"}
NewStatuses == {"in_progress", "completed", "failed"}
NoPlanId == ""
PlanIdsAsked == {PlanIdOf(n) : n \in 1..MaxPlans + 1} \cup {NoPlanId}

\* plan_record, without its timestamp (the clock of the event loop).
PlanRecord(plan_id, plan_data, source_agent) ==
    [id |-> plan_id, data |-> plan_data, source |-> source_agent,
     status |-> "received"]

\* The returned texts.
PlanStored(plan_id) ==
    [kind |-> "stored",
     text |-> "Research plan " \o plan_id
                 \o " stored successfully. Status: ready for coordination."]
PlanNotFound(plan_id) ==
    [kind |-> "not_found", text |-> "Plan " \o plan_id \o " not found."]
PlanStatus(plan_id, status) ==
    [kind |-> "status", text |-> "Plan " \o plan_id \o " status: " \o status]
NoPlans == [kind |-> "no_plans", text |-> "No plans currently being coordinated."]
StatusSummary(lines) == [kind |-> "summary", lines |-> lines]
StatusUpdated(plan_id, old_status, status) ==
    [kind |-> "updated",
     text |-> "Plan " \o plan_id \o " status updated from " \o old_status
                 \o " to " \o status \o "."]
NoOrchReply == [kind |-> "none"]

\* coordination_status[plan_id] = value, on a dict.
SetItem(dict, key, value) ==
    [k \in DOMAIN dict \cup {key} |-> IF k = key THEN value ELSE dict[k]]

\* The (pid, status) pairs in the order of coordination_status.items(): the
\* order in which the keys were inserted, which is the order of the plans.
StatusItems ==
    [i \in 1..Len(received_plans_storage) |->
        <<received_plans_storage[i].id,
          coordination_status[received_plans_storage[i].id]>>]

store_research_plan(plan_data, source_agent) ==
    /\ Len(received_plans_storage) < MaxPlans
    /\ LET plan_id == PlanIdOf(Len(received_plans_storage) + 1) IN
          /\ received_plans_storage' =
                Append(received_plans_storage,
                       PlanRecord(plan_id, plan_data, source_agent))
          /\ coordination_status' =
                SetItem(coordination_status, plan_id, "pending_coordination")
          /\ orch_reply' = PlanStored(plan_id)

get_coordination_status(plan_id) ==
    /\ orch_reply' =
          IF plan_id # NoPlanId
          THEN IF plan_id \in DOMAIN coordination_status
               THEN PlanStatus(plan_id, coordination_status[plan_id])
               ELSE PlanNotFound(plan_id)
          ELSE IF DOMAIN coordination_status = {}
               THEN NoPlans
               ELSE StatusSummary(StatusItems)
    /\ UNCHANGED <<received_plans_storage, coordination_status>>

\* The same without the test of line 128.
update_coordination_status_any_id(plan_id, status) ==
    /\ coordination_status' = SetItem(coordination_status, plan_id, status)
    /\ orch_reply' =
          StatusUpdated(plan_id,
                        IF plan_id \in DOMAIN coordination_status
                        THEN coordination_status[plan_id] ELSE "None",
                        status)
    /\ UNCHANGED received_plans_storage

update_coordination_status(plan_id, status) ==
    IF plan_id \notin DOMAIN coordination_status
    THEN /\ orch_reply' = PlanNotFound(plan_id)
         /\ UNCHANGED <<received_plans_storage, coordination_status>>
    ELSE /\ coordination_status' = SetItem(coordination_status, plan_id, status)
         /\ orch_reply' =
               StatusUpdated(plan_id, coordination_status[plan_id], status)
         /\ UNCHANGED received_plans_storage

\* The module has just been imported.
OrchIdle ==
    /\ received_plans_storage = <<>>
    /\ coordination_status = [p \in {} |-> "none"]
    /\ orch_reply = NoOrchReply

(***************************************************************************)
(* The WebSocket connection manager.  A socket is "broken" when the client *)
(* behind it is gone, so that send_text on it raises.  One broadcast is    *)
(* followed from its call to its return: it is suspended at every          *)
(* `await connection.send_text(message)`, and no socket is accepted, lost  *)
(* or disconnected while it runs.                                          *)
(***************************************************************************)
MaxConns == 3           \* sockets opened in one behaviour
MaxBroadcasts == 2      \* broadcast calls in one behaviour

Conns == 1..MaxConns

\* list.remove(x): the list without the first item equal to x.
RECURSIVE ListRemove(_, _)
ListRemove(list, x) ==
    IF list = <<>> THEN <<>>
    ELSE IF Head(list) = x THEN Tail(list)
    ELSE <<Head(list)>> \o ListRemove(Tail(list), x)

Connected == {active_connections[i] : i \in 1..Len(active_connections)}

\* ConnectionManager.connect: accept, then append.
connect(c) ==
    /\ bc_pc # "iterating"
    /\ ws_state[c] = "new"
    /\ ws_state' = [ws_state EXCEPT ![c] = "open"]
    /\ active_connections' = Append(active_connections, c)
    /\ UNCHANGED <<ws_inbox, bc_pc, bc_i, bc_message, bc_call, bc_count>>

\* The client of an open socket goes away.
ClientGone(c) ==
    /\ bc_pc # "iterating"
    /\ ws_state[c] = "open"
    /\ ws_state' = [ws_state EXCEPT ![c] = "broken"]
    /\ UNCHANGED <<active_connections, ws_inbox, bc_pc, bc_i, bc_message,
                   bc_call, bc_count>>

\* The endpoint of a socket that is gone gets WebSocketDisconnect and calls
\* ConnectionManager.disconnect; list.remove raises ValueError when
\* broadcast has removed the socket already, and the endpoint ends.
disconnect(c) ==
    /\ bc_pc # "iterating"
    /\ ws_state[c] = "broken"
    /\ ws_state' = [ws_state EXCEPT ![c] = "closed"]
    /\ active_connections' =
          IF c \in Connected THEN ListRemove(active_connections, c)
          ELSE active_connections
    /\ UNCHANGED <<ws_inbox, bc_pc, bc_i, bc_message, bc_call, bc_count>>

\* receive_orchestrator_event calls manager.broadcast(json.dumps(event_data)):
\* the for statement makes its iterator over active_connections.
BroadcastCall ==
    /\ bc_pc \in {"idle", "done"}
    /\ bc_count < MaxBroadcasts
    /\ bc_count' = bc_count + 1
    /\ bc_message' = "event " \o ToString(bc_count + 1)
    /\ bc_call' = active_connections
    /\ bc_i' = 1
    /\ bc_pc' = "iterating"
    /\ UNCHANGED <<active_connections, ws_state, ws_inbox>>

\* One turn of the loop: the iterator yields the item at its position in
\* the list as the list is now, and moves one position on; send_text
\* delivers, or raises and the handler removes the socket from the list.
BroadcastSend ==
    /\ bc_pc = "iterating"
    /\ bc_i <= Len(active_connections)
    /\ LET connection == active_connections[bc_i] IN
          IF ws_state[connection] = "open"
          THEN /\ ws_inbox' = [ws_inbox EXCEPT ![connection] = Append(@, bc_message)]
               /\ UNCHANGED active_connections
          ELSE /\ active_connections' = ListRemove(active_connections, connection)
               /\ UNCHANGED ws_inbox
    /\ bc_i' = bc_i + 1
    /\ UNCHANGED <<ws_state, bc_pc, bc_message, bc_call, bc_count>>

\* The iterator is past the end of the list: broadcast returns.
BroadcastReturn ==
    /\ bc_pc = "iterating"
    /\ bc_i > Len(active_connections)
    /\ bc_pc' = "done"
    /\ UNCHANGED <<active_connections, ws_state, ws_inbox, bc_i, bc_message,
                   bc_call, bc_count>>

\* manager = ConnectionManager(): no socket yet.
WsIdle ==
    /\ active_connections = <<>>
    /\ ws_state = [c \in Conns |-> "new"]
    /\ ws_inbox = [c \in Conns |-> <<>>]
    /\ bc_pc = "idle"
    /\ bc_i = 1
    /\ bc_message = ""
    /\ bc_call = <<>>
    /\ bc_count = 0

Init == RcIdle /\ RegIdle /\ FsIdle /\ SynIdle /\ BusIdle /\ ExIdle /\ OrchIdle /\ WsIdle

RegRest == <<lock, t_pc, t_op, t_path, t_absent, completed, calls>>

Next ==
    \/ \E c \in CategorySet, n \in 1..MaxTasks :
            update_todo_list(c, n) /\ UNCHANGED <<orch_vars, ws_vars, rc_vars, RegRest, syn_vars>>
    \/ (ex_runs = 0 /\ ExBegin) /\ UNCHANGED <<orch_vars, ws_vars, rc_vars, RegRest, syn_vars>>
    \/ ExSkip /\ UNCHANGED <<orch_vars, ws_vars, rc_vars, RegRest, syn_vars>>
    \/ ExStart /\ UNCHANGED <<orch_vars, ws_vars, rc_vars, RegRest, syn_vars>>
    \/ MarketTypeError /\ UNCHANGED <<orch_vars, ws_vars, rc_vars, RegRest, syn_vars>>
    \/ WorkerRejects /\ UNCHANGED <<orch_vars, ws_vars, rc_vars, RegRest, syn_vars>>
    \/ WorkerRaises /\ UNCHANGED <<orch_vars, ws_vars, rc_vars, RegRest, syn_vars>>
    \/ update_work_progress /\ UNCHANGED <<orch_vars, ws_vars, rc_vars, RegRest, syn_vars>>
    \/ \E ok \in BOOLEAN : save_report(ok) /\ UNCHANGED <<orch_vars, ws_vars, rc_vars, RegRest, syn_vars>>
    \/ WorkerFinishes /\ UNCHANGED <<orch_vars, ws_vars, rc_vars, RegRest, syn_vars>>
    \/ ExEnd /\ UNCHANGED <<orch_vars, ws_vars, rc_vars, RegRest, syn_vars>>

Spec == Init /\ [][Next]_vars

\* A planning session: the plan is made, execute_research_plan runs it, a
\* worker may get stuck, and the context-clear endpoint may be called at
\* any time.  The plans are drawn over the first two categories.
SessionPlanCategories == {"competition_tasks", "market_tasks"}

SessionInit == RcIdle /\ RegIdle /\ FsIdle /\ SynIdle /\ BusIdle /\ ExIdle /\ OrchIdle /\ WsIdle

SessionNext ==
    \/ \E c \in SessionPlanCategories, n \in 1..MaxTasks :
            update_todo_list(c, n) /\ UNCHANGED <<orch_vars, ws_vars, rc_vars, RegRest, syn_vars>>
    \/ (ex_runs = 0 /\ ExBegin) /\ UNCHANGED <<orch_vars, ws_vars, rc_vars, RegRest, syn_vars>>
    \/ ExSkip /\ UNCHANGED <<orch_vars, ws_vars, rc_vars, RegRest, syn_vars>>
    \/ ExStart /\ UNCHANGED <<orch_vars, ws_vars, rc_vars, RegRest, syn_vars>>
    \/ MarketTypeError /\ UNCHANGED <<orch_vars, ws_vars, rc_vars, RegRest, syn_vars>>
    \/ WorkerRejects /\ UNCHANGED <<orch_vars, ws_vars, rc_vars, RegRest, syn_vars>>
    \/ WorkerRaises /\ UNCHANGED <<orch_vars, ws_vars, rc_vars, RegRest, syn_vars>>
    \/ update_work_progress /\ UNCHANGED <<orch_vars, ws_vars, rc_vars, RegRest, syn_vars>>
    \/ \E ok \in BOOLEAN : save_report(ok) /\ UNCHANGED <<orch_vars, ws_vars, rc_vars, RegRest, syn_vars>>
    \/ WorkerFinishes /\ UNCHANGED <<orch_vars, ws_vars, rc_vars, RegRest, syn_vars>>
    \/ ExEnd /\ UNCHANGED <<orch_vars, ws_vars, rc_vars, RegRest, syn_vars>>
    \/ WorkerStalls /\ UNCHANGED <<orch_vars, ws_vars, rc_vars, RegRest, syn_vars>>
    \/ DeadlinePasses /\ UNCHANGED <<orch_vars, ws_vars, rc_vars, RegRest, syn_vars>>
    \/ clear_planner_todo_list /\ UNCHANGED <<orch_vars, ws_vars, rc_vars, RegRest, syn_vars>>

SpecSession == SessionInit /\ [][SessionNext]_vars

(***************************************************************************)
(* The life of the task plan: the planner's tools called again and again,  *)
(* execute_research_plan more than once, with category names inside and    *)
(* outside todo_list_storage's keys.                                       *)
(***************************************************************************)
PlanCategoryNames == {"competition_tasks", "market_tasks", "other_tasks"}

PlanInit == RcIdle /\ RegIdle /\ FsIdle /\ SynIdle /\ BusIdle /\ ExIdle /\ OrchIdle /\ WsIdle

PlanNext ==
    \/ \E c \in PlanCategoryNames, n \in 1..MaxTasks :
            update_todo_list(c, n) /\ UNCHANGED <<orch_vars, ws_vars, rc_vars, RegRest, syn_vars>>
    \/ ExBegin /\ UNCHANGED <<orch_vars, ws_vars, rc_vars, RegRest, syn_vars>>
    \/ ExSkip /\ UNCHANGED <<orch_vars, ws_vars, rc_vars, RegRest, syn_vars>>
    \/ ExStart /\ UNCHANGED <<orch_vars, ws_vars, rc_vars, RegRest, syn_vars>>
    \/ MarketTypeError /\ UNCHANGED <<orch_vars, ws_vars, rc_vars, RegRest, syn_vars>>
    \/ WorkerRejects /\ UNCHANGED <<orch_vars, ws_vars, rc_vars, RegRest, syn_vars>>
    \/ WorkerRaises /\ UNCHANGED <<orch_vars, ws_vars, rc_vars, RegRest, syn_vars>>
    \/ \E ok \in BOOLEAN : save_report(ok) /\ UNCHANGED <<orch_vars, ws_vars, rc_vars, RegRest, syn_vars>>
    \/ WorkerFinishes /\ UNCHANGED <<orch_vars, ws_vars, rc_vars, RegRest, syn_vars>>
    \/ ExEnd /\ UNCHANGED <<orch_vars, ws_vars, rc_vars, RegRest, syn_vars>>
    \/ clear_planner_todo_list /\ UNCHANGED <<orch_vars, ws_vars, rc_vars, RegRest, syn_vars>>

SpecPlan == PlanInit /\ [][PlanNext]_vars

\* The planner's tools execute_research_plan and run_synthesis_agent_tool,
\* with the workers' save tools (the workers' progress events, which the
\* synthesizer never reads, are left out).  The plans are drawn over
\* three of the categories and are complete when execute_research_plan is
\* called (SpecPlan has the plans that change under a run).
SynthesisPlanCategories == {"competition_tasks", "market_tasks", "price_tasks"}

SynthesisInit == RcIdle /\ RegIdle /\ FsIdle /\ SynIdle /\ BusIdle /\ ExIdle /\ OrchIdle /\ WsIdle

SynthesisNext ==
    \/ \E c \in SynthesisPlanCategories, n \in 1..MaxTasks :
            (ex_pc = "idle" /\ update_todo_list(c, n))
                /\ UNCHANGED <<orch_vars, ws_vars, rc_vars, RegRest, syn_vars>>
    \/ (ex_runs = 0 /\ ExBegin) /\ UNCHANGED <<orch_vars, ws_vars, rc_vars, RegRest, syn_vars>>
    \/ ExSkip /\ UNCHANGED <<orch_vars, ws_vars, rc_vars, RegRest, syn_vars>>
    \/ ExStart /\ UNCHANGED <<orch_vars, ws_vars, rc_vars, RegRest, syn_vars>>
    \/ MarketTypeError /\ UNCHANGED <<orch_vars, ws_vars, rc_vars, RegRest, syn_vars>>
    \/ WorkerRejects /\ UNCHANGED <<orch_vars, ws_vars, rc_vars, RegRest, syn_vars>>
    \/ WorkerRaises /\ UNCHANGED <<orch_vars, ws_vars, rc_vars, RegRest, syn_vars>>
    \/ \E ok \in BOOLEAN : save_report(ok) /\ UNCHANGED <<orch_vars, ws_vars, rc_vars, RegRest, syn_vars>>
    \/ WorkerFinishes /\ UNCHANGED <<orch_vars, ws_vars, rc_vars, RegRest, syn_vars>>
    \/ ExEnd /\ UNCHANGED <<orch_vars, ws_vars, rc_vars, RegRest, syn_vars>>
    \/ SynHandOver /\ UNCHANGED <<orch_vars, ws_vars, rc_vars, bus_vars, ex_vars>>
    \/ SynPrompt /\ UNCHANGED <<orch_vars, ws_vars, rc_vars, bus_vars, ex_vars>>
    \/ SynCombineCall /\ UNCHANGED <<orch_vars, ws_vars, rc_vars, bus_vars, ex_vars>>
    \/ SynIterate /\ UNCHANGED <<orch_vars, ws_vars, rc_vars, bus_vars, ex_vars>>
    \/ SynRegister /\ UNCHANGED <<orch_vars, ws_vars, rc_vars, bus_vars, ex_vars>>
    \/ Acquire(SynId) /\ UNCHANGED <<orch_vars, ws_vars, rc_vars, fs_vars, syn_vars, bus_vars, ex_vars>>
    \/ Check(SynId) /\ UNCHANGED <<orch_vars, ws_vars, rc_vars, syn_vars, bus_vars, ex_vars>>
    \/ AppendPath(SynId) /\ UNCHANGED <<orch_vars, ws_vars, completed, rc_vars, fs_vars, syn_vars, bus_vars, ex_vars>>
    \/ Release(SynId, TRUE) /\ UNCHANGED <<orch_vars, ws_vars, rc_vars, syn_vars, bus_vars, ex_vars>>
    \/ SynDone /\ UNCHANGED <<orch_vars, ws_vars, rc_vars, bus_vars, ex_vars>>

SpecSynthesis == SynthesisInit /\ [][SynthesisNext]_vars

BusInit == RcIdle /\ RegIdle /\ FsIdle /\ SynIdle /\ BusIdle /\ ExIdle /\ OrchIdle /\ WsIdle

BusNext ==
    \/ put_nowait /\ UNCHANGED <<orch_vars, ws_vars, rc_vars, reg_vars, fs_vars, syn_vars, ex_vars>>
    \/ on_thought_delta /\ UNCHANGED <<orch_vars, ws_vars, rc_vars, reg_vars, fs_vars, syn_vars, ex_vars>>
    \/ get_call /\ UNCHANGED <<orch_vars, ws_vars, rc_vars, reg_vars, fs_vars, syn_vars, ex_vars>>
    \/ get_return /\ UNCHANGED <<orch_vars, ws_vars, rc_vars, reg_vars, fs_vars, syn_vars, ex_vars>>
    \/ get_wait /\ UNCHANGED <<orch_vars, ws_vars, rc_vars, reg_vars, fs_vars, syn_vars, ex_vars>>
    \/ monitor_check /\ UNCHANGED <<orch_vars, ws_vars, rc_vars, reg_vars, fs_vars, syn_vars, ex_vars>>
    \/ monitor_get_nowait /\ UNCHANGED <<orch_vars, ws_vars, rc_vars, reg_vars, fs_vars, syn_vars, ex_vars>>

SpecBus == BusInit /\ [][BusNext]_vars

RegistryInit == RcIdle /\ RegIdle /\ FsIdle /\ SynIdle /\ BusIdle /\ ExIdle /\ OrchIdle /\ WsIdle

RegistryNext ==
    \/ \E t \in Threads, op \in SaveOps : CallSave(t, op) /\ UNCHANGED <<orch_vars, ws_vars, rc_vars, fs_vars, syn_vars, bus_vars, ex_vars>>
    \/ \E t \in Threads : CallClear(t) /\ UNCHANGED <<orch_vars, ws_vars, rc_vars, fs_vars, syn_vars, bus_vars, ex_vars>>
    \/ \E t \in Procs : Acquire(t) /\ UNCHANGED <<orch_vars, ws_vars, rc_vars, fs_vars, syn_vars, bus_vars, ex_vars>>
    \/ \E t \in Procs : Check(t) /\ UNCHANGED <<orch_vars, ws_vars, rc_vars, syn_vars, bus_vars, ex_vars>>
    \/ \E t \in Procs : AppendPath(t) /\ UNCHANGED <<orch_vars, ws_vars, completed, rc_vars, fs_vars, syn_vars, bus_vars, ex_vars>>
    \/ \E t \in Threads : ClearStorage(t) /\ UNCHANGED <<orch_vars, ws_vars, rc_vars, fs_vars, syn_vars, bus_vars, ex_vars>>
    \/ \E t \in Procs, ok \in BOOLEAN : Release(t, ok) /\ UNCHANGED <<orch_vars, ws_vars, rc_vars, syn_vars, bus_vars, ex_vars>>
    \/ (syn_runs = 0 /\ SynHandOver) /\ UNCHANGED <<orch_vars, ws_vars, rc_vars, bus_vars, ex_vars>>
    \/ SynPrompt /\ UNCHANGED <<orch_vars, ws_vars, rc_vars, bus_vars, ex_vars>>
    \/ SynCombineCall /\ UNCHANGED <<orch_vars, ws_vars, rc_vars, bus_vars, ex_vars>>
    \/ SynIterate /\ UNCHANGED <<orch_vars, ws_vars, rc_vars, bus_vars, ex_vars>>
    \/ SynRegister /\ UNCHANGED <<orch_vars, ws_vars, rc_vars, bus_vars, ex_vars>>
    \/ SynDone /\ UNCHANGED <<orch_vars, ws_vars, rc_vars, bus_vars, ex_vars>>

SpecRegistry == RegistryInit /\ [][RegistryNext]_vars

RetryInit == RcIdle /\ RegIdle /\ FsIdle /\ SynIdle /\ BusIdle /\ ExIdle /\ OrchIdle /\ WsIdle

RetryNext ==
    RcNext /\ UNCHANGED <<orch_vars, ws_vars, reg_vars, fs_vars, syn_vars, bus_vars, ex_vars>>

SpecRetry == RetryInit /\ [][RetryNext]_vars

\* The same with progress: the thread running the call keeps running (every
\* blocking step of the loop, future.result and time.sleep, has a finite
\* timeout), and so does its caller.
SpecRetryLive == RetryInit /\ [][RetryNext]_vars /\ WF_vars(RetryNext)

\* The orchestrator's tools called in any order with any arguments.
OrchestratorInit ==
    RcIdle /\ RegIdle /\ FsIdle /\ SynIdle /\ BusIdle /\ ExIdle /\ OrchIdle /\ WsIdle

OrchRest == <<ws_vars, rc_vars, reg_vars, fs_vars, syn_vars, bus_vars, ex_vars>>

OrchestratorNext ==
    \/ \E plan_data \in PlanData, source_agent \in SourceAgents :
            store_research_plan(plan_data, source_agent) /\ UNCHANGED OrchRest
    \/ \E plan_id \in PlanIdsAsked :
            get_coordination_status(plan_id) /\ UNCHANGED OrchRest
    \/ \E plan_id \in PlanIdsAsked \ {NoPlanId}, status \in NewStatuses :
            update_coordination_status(plan_id, status) /\ UNCHANGED OrchRest

SpecOrchestrator == OrchestratorInit /\ [][OrchestratorNext]_vars

\* Sockets coming and going, and events broadcast to them.
WebSocketInit ==
    RcIdle /\ RegIdle /\ FsIdle /\ SynIdle /\ BusIdle /\ ExIdle /\ OrchIdle /\ WsIdle

WsRest == <<orch_vars, rc_vars, reg_vars, fs_vars, syn_vars, bus_vars, ex_vars>>

WebSocketNext ==
    \/ \E c \in Conns : connect(c) /\ UNCHANGED WsRest
    \/ \E c \in Conns : ClientGone(c) /\ UNCHANGED WsRest
    \/ \E c \in Conns : disconnect(c) /\ UNCHANGED WsRest
    \/ BroadcastCall /\ UNCHANGED WsRest
    \/ BroadcastSend /\ UNCHANGED WsRest
    \/ BroadcastReturn /\ UNCHANGED WsRest

SpecWebSocket == WebSocketInit /\ [][WebSocketNext]_vars

(***************************************************************************)
(* Claims about the retrying caller (checked under SpecRetry).             *)
(***************************************************************************)
IsTimeout(o) == o.kind \in {"timeout", "request_timeout"}
IsHttp(o, status) == o.kind = "http" /\ o.status = status
IsSuccess(o) == o.kind = "response" /\ o.body = "ok"

\* C5: with max_retries = 2, an upstream that times out on the first two
\* attempts and then succeeds makes the call return the success response
\* after exactly 3 attempts, having slept 1 before attempt 2 and 2 before
\* attempt 3.
C5_TimeoutTwiceThenSuccess ==
    (/\ rc_pc = "done"
     /\ rc_max_retries = 2
     /\ Len(rc_outcomes) = 3
     /\ IsTimeout(rc_outcomes[1])
     /\ IsTimeout(rc_outcomes[2])
     /\ IsSuccess(rc_outcomes[3]))
    => (/\ rc_result = "Success"
        /\ rc_attempts = 3
        /\ rc_delays = <<1, 2>>)

C5_Witness ==
    /\ rc_pc = "done"
    /\ rc_max_retries = 2
    /\ Len(rc_outcomes) = 3
    /\ rc_outcomes[1].kind = "timeout"
    /\ rc_outcomes[2].kind = "timeout"
    /\ IsSuccess(rc_outcomes[3])
    /\ rc_result = "Success"

\* C6: an answer of HTTP 401 (respectively 400) ends the call at once with
\* the Unauthorized (respectively BadRequest) failure; when it answers the
\* first attempt, exactly 1 attempt was made and nothing was slept, whatever
\* max_retries is.
C6_NoRetryOn401Or400 ==
    \A status \in {401, 400} :
        (/\ rc_pc = "done"
         /\ rc_outcomes # <<>>
         /\ IsHttp(rc_outcomes[Len(rc_outcomes)], status))
        => (/\ rc_result = (IF status = 401 THEN "Unauthorized" ELSE "BadRequest")
            /\ Len(rc_outcomes) = 1 => (rc_attempts = 1 /\ rc_delays = <<>>))

\* C7: when every attempt is answered with HTTP 429 the call makes exactly
\* max_retries + 1 attempts, sleeping 2^attempt before each retry, and then
\* fails with the RateLimited error.
C7_RetryOn429 ==
    (/\ rc_pc = "done"
     /\ rc_outcomes # <<>>
     /\ \A i \in 1..Len(rc_outcomes) : IsHttp(rc_outcomes[i], 429))
    => (/\ rc_attempts = rc_max_retries + 1
        /\ rc_result = "RateLimited"
        /\ rc_delays = [i \in 1..rc_max_retries |-> Pow2(i - 1)])

(***************************************************************************)
(* Claims about the artifact registry (checked under SpecRegistry).        *)
(***************************************************************************)
IsPrefix(a, b) == Len(a) <= Len(b) /\ \A i \in 1..Len(a) : a[i] = b[i]

NoDuplicates(seq) == \A i, j \in 1..Len(seq) : i # j => seq[i] # seq[j]

\* The first occurrences of the elements of seq, in order.
RECURSIVE FirstOccurrences(_)
FirstOccurrences(seq) ==
    IF seq = <<>> THEN <<>>
    ELSE LET front == FirstOccurrences(SubSeq(seq, 1, Len(seq) - 1))
             last == seq[Len(seq)]
         IN  IF last \in Elems(front) THEN front ELSE Append(front, last)

IsClearStep ==
    \E t \in Threads :
        /\ t_pc[t] = "locked"
        /\ t_op[t] = "clear_report_filepaths"
        /\ t_pc'[t] = "release"

C1_Contents ==
    /\ NoDuplicates(registry)
    /\ IsPrefix(FirstOccurrences(completed), registry)
    /\ Len(registry) <= Len(FirstOccurrences(completed)) + 1
    /\ (\A t \in Procs : t_pc[t] = "idle") => registry = FirstOccurrences(completed)

C1_NoRemoval == IsClearStep \/ IsPrefix(registry, registry')

\* C1: under every interleaving of concurrent registrations the registry
\* holds each distinct path exactly once, in the order of first
\* registration, and a step that is not a clear neither removes nor
\* reorders an entry.
C1_RegistryExactlyOnceInOrder == [](C1_Contents) /\ [][C1_NoRemoval]_vars

\* Two threads have registered the same path around another one; the
\* registry holds two entries.
C1_Witness ==
    /\ \A t \in Procs : t_pc[t] = "idle"
    /\ Len(completed) = 3
    /\ completed[1] = completed[3]
    /\ completed[1] # completed[2]
    /\ registry = <<completed[1], completed[2]>>

\* C10: the list the Synthesizer iterates over is the registry content at
\* the moment of the hand-over, whatever is registered concurrently or later.
C10_SnapshotAtHandOver ==
    syn_pc \in {"prompted", "combining", "registering", "done"}
    => (syn_filepaths = syn_handover /\ IsPrefix(syn_iterated, syn_handover))

(***************************************************************************)
(* Claims about the events of execute_research_plan (checked under Spec).  *)
(***************************************************************************)
TerminalTypes == {"thought_end", "tool_output"}
AllocatingTypes == {"thought_start", "tool_call"}

\* C2: for every spanId, at most one terminal event (thought_end or
\* tool_output) carrying it has been published.
C2_AtMostOneTerminalPerSpan ==
    \A i, j \in 1..Len(history) :
        (/\ history[i].eventType \in TerminalTypes
         /\ history[j].eventType \in TerminalTypes
         /\ history[i].spanId = history[j].spanId)
        => i = j

\* Two workers have finished: two terminal events are in the history.
C2_Witness ==
    \E i, j \in 1..Len(history) :
        /\ i < j
        /\ history[i].eventType = "thought_end"
        /\ history[j].eventType = "thought_end"

\* C3: once execute_research_plan is over (returned or raised), every
\* thought_start and every tool_call published has been followed by exactly
\* one terminal event with its spanId.
C3_EverySpanTerminated ==
    ex_pc \in {"done", "failed"}
    => \A i \in 1..Len(history) :
           history[i].eventType \in AllocatingTypes
           => Cardinality({j \in (i + 1)..Len(history) :
                              /\ history[j].eventType \in TerminalTypes
                              /\ history[j].spanId = history[i].spanId}) = 1

(***************************************************************************)
(* Claims about the event bus (checked under SpecBus).                     *)
(***************************************************************************)
ByAgent(seq, agent) ==
    LET FromAgent(e) == e.agentName = agent
    IN  SelectSeq(seq, FromAgent)

Producers == {"SyncProducer", "CallbackAgent"}

\* The position at which the bus accepted an event.
PositionIn(seq, ev) == CHOOSE i \in 1..Len(seq) : seq[i] = ev

\* The events of one producer within what a consumer got are in the order
\* in which the bus accepted them.
InPublishOrder(got, agent) ==
    \A i, j \in 1..Len(got) :
        (i < j /\ got[i].agentName = agent /\ got[j].agentName = agent)
            => PositionIn(history, got[i]) < PositionIn(history, got[j])

\* C4: the events of one producer reach a consumer in the order in which
\* that producer published them: none overtakes an earlier one; and while
\* the awaiting consumer is the only one that took events, what it got of a
\* producer is exactly the first events that producer published.
C4_PerProducerFifo ==
    \A agent \in Producers :
        /\ InPublishOrder(received, agent)
        /\ InPublishOrder(m_received, agent)
        /\ m_received = <<>>
            => IsPrefix(ByAgent(received, agent), ByAgent(history, agent))

\* The consumer got two events of one producer with an event of the other
\* producer between them.
C4_Witness ==
    /\ Len(received) = 3
    /\ received[1].agentName = received[3].agentName
    /\ received[1].agentName # received[2].agentName

\* C8: the consumer is never suspended in a receive for longer than the
\* timeout T; after T on an empty bus the receive returns the keepalive.
C8_ReceiveReturnsWithinTimeout ==
    c_pc = "in_get" => c_waited <= RecvTimeout

C9_NeverBlocks == api_puts < MaxApiEvents => ENABLED put_nowait

C9_Effect ==
    last_put' # last_put
    => /\ ~last_put'.escaped
       /\ IF Full(queue)
          THEN queue' = queue /\ dropped' = dropped + 1
          ELSE queue' = Append(queue, last_put'.event) /\ dropped' = dropped

Occurrences(seq, ev) == Cardinality({i \in 1..Len(seq) : seq[i] = ev})

C11_DeliveredExactlyOnce ==
    /\ \A i \in 1..Len(history) :
          Occurrences(received, history[i]) + Occurrences(m_received, history[i])
            + Occurrences(queue, history[i]) = 1
    /\ Len(received) + Len(m_received) + Len(queue) = Len(history)

C11_Witness ==
    /\ Len(received) >= 1
    /\ Len(m_received) >= 1
    /\ Len(received) + Len(m_received) = MaxApiEvents
    /\ queue = <<>>

(***************************************************************************)
(* Claims about the coordinator's dispatch.                                *)
(***************************************************************************)
IsStart(e) == e.eventType = "thought_start"

\* The event a step appended to the accepted events, if it appended one.
Appended == Len(history') = Len(history) + 1 /\ SubSeq(history', 1, Len(history)) = history
LastAppended == history'[Len(history')]

\* A step in which execute_research_plan gets past the `if` of a category.
PastTheIf == ex_pc = "dispatch" /\ <<ex_pc, ex_cat>>' # <<ex_pc, ex_cat>>

C12_Step ==
    /\ PastTheIf =>
          IF todo[CurrentCategory] # <<>>
          THEN /\ Appended
               /\ IsStart(LastAppended)
               /\ LastAppended.agentName = AgentName(CurrentCategory)
               /\ ex_pc' = "running"
          ELSE history' = history
    /\ (Appended /\ IsStart(LastAppended)) => PastTheIf

C12_Spans ==
    \A j \in 1..Len(history) :
        IsStart(history[j]) =>
            /\ \A i \in 1..(j - 1) : history[i].spanId # history[j].spanId
            /\ \A i \in 1..(j - 1) :
                   IsStart(history[i]) => history[i].agentName # history[j].agentName
            /\ history[j].spanId # history[j].traceId

C13_WorkerFailureDoesNotAbort ==
    ex_pc \in {"done", "failed"} => (ex_pc = "done" /\ ex_cat = Len(Categories))

CategoryOf(agent) == CHOOSE c \in CategorySet : AgentName(c) = agent

\* C14: when a dispatched worker's terminal event is published, the registry
\* holds exactly one artifact of that worker.
C14_Step ==
    (Appended /\ LastAppended.eventType \in TerminalTypes) =>
        Occurrences(registry', PathOf(SaveOpOf(CategoryOf(LastAppended.agentName)))) = 1

C14_OneArtifactPerTerminatedWorker == [][C14_Step]_vars

\* C19: all events published during one run of execute_research_plan carry
\* the trace_id of that run.
C19_OneTraceIdPerInvocation ==
    ex_pc # "idle" => \A i \in 1..Len(history) : history[i].traceId = ex_trace

(***************************************************************************)
(* Claims about the synthesizer and the session.                           *)
(***************************************************************************)

\* C15: run_synthesis_agent_tool starts its work only when the run of
\* execute_research_plan is over (every dispatched worker ended or raised),
\* never before the dispatch or while a worker is running.
C15_Step == syn_runs' # syn_runs => ex_pc \in {"done", "failed"}

C15_SynthesisAfterAllWorkers == [][C15_Step]_vars

\* One iteration of combine_reports' loop adds, for the next path of its
\* input, the delimiter followed by the file's whole text, or by the
\* placeholder naming the path when the file does not exist.
C16_Step ==
    syn_iterated' # syn_iterated /\ syn_iterated' # <<>> =>
        LET path == syn_filepaths[Len(syn_iterated) + 1]
        IN  /\ syn_iterated' = Append(syn_iterated, path)
            /\ syn_combined' =
                  syn_combined \o <<Delimiter>> \o
                  (IF files[path].exists THEN files[path].text
                                         ELSE <<MissingFile(path)>>)

\* The loop visits the paths in input order, goes on whether or not the next
\* file exists, and is left only when every path was visited; the result
\* has one delimiter per input path (more only through the delimiters that
\* an earlier combined report, given as an input, holds itself).
C16_Loop ==
    /\ IsPrefix(syn_iterated, syn_filepaths)
    /\ (syn_pc = "combining" /\ Len(syn_iterated) < Len(syn_filepaths))
          => ENABLED SynIterate
    /\ syn_pc \in {"registering", "done"} => syn_iterated = syn_filepaths
    /\ \A k \in 1..Len(syn_log) :
          LET r == syn_log[k]
          IN  /\ Occurrences(r.text, Delimiter) >= Len(r.input)
              /\ FinalPath \notin Elems(r.input)
                    => Occurrences(r.text, Delimiter) = Len(r.input)

\* C16: combine_reports produces one section per input path, in input
\* order, each behind the delimiter: the file's content, or a placeholder
\* naming the path; a missing file neither ends the run nor drops a section.
C16_OneSectionPerPath == [](C16_Loop) /\ [][C16_Step]_vars

\* A run combined [A, B] where A's file existed and B's did not.
C16_Witness ==
    \E k \in 1..Len(syn_log) :
        LET r == syn_log[k]
        IN  /\ Len(r.input) = 2
            /\ r.text = <<Delimiter>> \o ReportDraft(r.input[1], 1)
                          \o <<Delimiter, MissingFile(r.input[2])>>

\* C17: a second synthesis run over an unchanged artifact set (the registry
\* as the first run left it, the workers' files untouched) writes the same
\* combined content as the first and leaves the registry as it was, with
\* the combined path in it once.
C17_SynthesisIdempotent ==
    (/\ Len(syn_log) >= 2
     /\ syn_log[2].before = syn_log[1].after
     /\ syn_log[2].worker_files = syn_log[1].worker_files)
    => /\ syn_log[2].text = syn_log[1].text
       /\ syn_log[2].after = syn_log[1].after
       /\ Occurrences(syn_log[2].after, FinalPath) = 1

\* C18: the reset at the start of a new planning session leaves the
\* registry and the event queue empty.
C18_Step == clear_planner_todo_list => (registry' = <<>> /\ queue' = <<>>)

C18_ResetClearsRegistryAndBus == [][C18_Step]_vars

\* C20: a worker that never finishes is given up once its deadline has
\* passed: execute_research_plan is not still waiting for it after that.
C20_StuckWorkerTimesOut == ex_pc = "stuck" => ex_elapsed <= WorkerDeadline

(***************************************************************************)
(* More claims about the retrying caller (checked under SpecRetry).        *)
(***************************************************************************)
LastOutcome(outcomes) == outcomes[Len(outcomes)]

\* A connection failure, or an HTTP error status other than 429, 401, 400.
IsOtherTransient(o) ==
    \/ o.kind = "connection_error"
    \/ (o.kind = "http" /\ o.status \notin {429, 401, 400})

\* time.sleep(1), the fixed delay of the handler's last HTTP branch.
ShortDelay == 1

\* C21: when every attempt fails with such an error, the call retries
\* exactly once after the short fixed delay and then gives up: 2 attempts at
\* most, whatever max_retries is (1 attempt when max_retries is 0).
C21_OtherTransientRetriedOnce ==
    (/\ rc_pc = "done"
     /\ rc_outcomes # <<>>
     /\ \A i \in 1..Len(rc_outcomes) : IsOtherTransient(rc_outcomes[i]))
    => IF rc_max_retries >= 1
       THEN rc_attempts = 2 /\ rc_delays = <<ShortDelay>>
       ELSE rc_attempts = 1 /\ rc_delays = <<>>

MalformedBodies == {"bad_json", "not_dict", "no_choices"}
MalformedResults == {"InvalidJSON", "UnexpectedFormat", "NoContent"}

IsMalformed(o) == o.kind = "response" /\ o.body \in MalformedBodies

C22_Step ==
    (rc_attempts' = rc_attempts + 1 /\ IsMalformed(LastOutcome(rc_outcomes')))
    => /\ rc_pc' = "done"
       /\ rc_result' \in MalformedResults
       /\ rc_delays' = rc_delays
       /\ rc_attempt' = rc_attempt

C22_Final ==
    (rc_pc = "done" /\ rc_outcomes # <<>> /\ IsMalformed(LastOutcome(rc_outcomes)))
    => rc_result \in MalformedResults /\ rc_attempts = Len(rc_outcomes)

\* C22: an answer whose body is not JSON, not an object or has no choices
\* ends the call at once with the malformed-response error: no wait and no
\* further attempt follow, even when retries remain.
C22_MalformedNotRetried == [](C22_Final) /\ [][C22_Step]_vars

\* A malformed answer ended a call on its second attempt with one retry left.
C22_Witness ==
    /\ rc_pc = "done"
    /\ rc_result = "NoContent"
    /\ Len(rc_outcomes) = 2
    /\ rc_attempt < rc_max_retries

\* The failure kind of the taxonomy that each returned error text stands for.
TaxonomyOf(result) ==
    CASE result = "UpstreamUnavailable" -> "UpstreamUnavailable"
      [] result = "Timeout" -> "Timeout"
      [] result = "RateLimited" -> "RateLimited"
      [] result = "Unauthorized" -> "Unauthorized"
      [] result = "BadRequest" -> "BadRequest"
      [] result \in MalformedResults \cup {"Unexpected"} -> "MalformedResponse"
      [] result \in {"NetworkFailed", "HttpError", "HttpErrorNoResponse",
                     "AllRetriesFailed"} -> "TransientTransport"

ReturnedErrors ==
    {"UpstreamUnavailable", "Timeout", "RateLimited", "Unauthorized", "BadRequest",
     "InvalidJSON", "UnexpectedFormat", "NoContent", "Unexpected", "NetworkFailed",
     "HttpError", "HttpErrorNoResponse", "AllRetriesFailed"}

\* C23: every call ends by returning a value, the success response or one
\* error text (one failure kind), never by raising; while it runs it can
\* always go on; without a credential it returns the UpstreamUnavailable
\* error having made no network attempt, and only then.
C23_AlwaysReturnsAValue ==
    /\ rc_pc \in {"idle", "loop", "done"}
    /\ rc_pc = "done" => rc_result \in {"Success"} \cup ReturnedErrors
    /\ rc_pc = "loop" => (rc_result = "none" /\ rc_attempt <= rc_max_retries /\ rc_api_key)
    /\ (rc_pc = "done" /\ ~rc_api_key)
          => (rc_result = "UpstreamUnavailable" /\ rc_attempts = 0)
    /\ (rc_pc = "done" /\ rc_result = "UpstreamUnavailable") => ~rc_api_key

C23_Witness ==
    /\ rc_pc = "done"
    /\ ~rc_api_key
    /\ rc_result = "UpstreamUnavailable"
    /\ rc_attempts = 0

(***************************************************************************)
(* Citation extraction (checked under SpecRetry).                          *)
(***************************************************************************)
\* The URLs the citations of the answer carry, and those of its search results.
CitedUrls ==
    {rc_citations[i].url :
        i \in {j \in 1..Len(rc_citations) :
                  rc_citations[j].type \in {"str", "dict"} /\ rc_citations[j].url # ""}}
FoundUrls ==
    {rc_search_results[i].url :
        i \in {j \in 1..Len(rc_search_results) : rc_search_results[j].url # ""}}

\* The list the sources have to come from: the citations when they carry
\* any URL, the search results otherwise.
Preferred == IF CitedUrls # {} THEN rc_citations ELSE rc_search_results
PreferredUrls == IF CitedUrls # {} THEN CitedUrls ELSE FoundUrls

FirstSeen(url) ==
    CHOOSE i \in 1..Len(Preferred) :
        /\ Preferred[i].url = url
        /\ \A j \in 1..(i - 1) : Preferred[j].url # url

IsSourceOf(link, url) == link = "- " \o url
SourceUrl(i) == CHOOSE url \in PreferredUrls : IsSourceOf(rc_sources[i], url)

\* C24: after a successful answer, every returned source is a URL of the
\* preferred list (citations before search results), no source appears
\* twice, sources are in the order in which their URLs are first seen, there
\* are at most 5 of them, and they are the first distinct URLs of the list
\* (all of them when there are 5 or fewer).
C24_CitationExtraction ==
    (rc_pc = "done" /\ rc_result = "Success") =>
        /\ \A i \in 1..Len(rc_sources) :
              \E url \in PreferredUrls : IsSourceOf(rc_sources[i], url)
        /\ \A i, j \in 1..Len(rc_sources) : i < j => rc_sources[i] # rc_sources[j]
        /\ \A i, j \in 1..Len(rc_sources) :
              i < j => FirstSeen(SourceUrl(i)) < FirstSeen(SourceUrl(j))
        /\ Len(rc_sources) <= 5
        /\ Len(rc_sources) =
              (IF Cardinality(PreferredUrls) < 5 THEN Cardinality(PreferredUrls) ELSE 5)
        /\ \A url \in PreferredUrls :
              (\A i \in 1..Len(rc_sources) : ~IsSourceOf(rc_sources[i], url))
                 => \A i \in 1..Len(rc_sources) : FirstSeen(SourceUrl(i)) < FirstSeen(url)

\* A successful answer whose citations repeat a URL and carry more than 5
\* distinct ones, next to search results that carry URLs too.
C24_Witness ==
    /\ rc_pc = "done"
    /\ rc_result = "Success"
    /\ Cardinality(CitedUrls) > 5
    /\ \E i, j \in 1..Len(rc_citations) :
          i < j /\ rc_citations[i].url = rc_citations[j].url /\ rc_citations[i].url # ""
    /\ rc_citations[1] = Dict("u2")
    /\ FoundUrls # {}
    /\ Len(rc_sources) = 5

\* Search results are used when no citation carries a URL.
C24_WitnessFallback ==
    /\ rc_pc = "done"
    /\ rc_result = "Success"
    /\ rc_citations # <<>>
    /\ CitedUrls = {}
    /\ Len(rc_sources) = 5

(***************************************************************************)
(* The task plan (checked under SpecPlan).                                  *)
(***************************************************************************)
C25_Closed == DOMAIN todo = CategorySet

C25_Step ==
    (todo_reply' # todo_reply /\ todo_reply'.kind = "invalid")
    => /\ todo' = todo
       /\ todo_reply'.category \notin CategorySet
       /\ {todo_reply'.valid[i] : i \in 1..Len(todo_reply'.valid)} = CategorySet

\* C25: an update_todo_list call whose category is outside the four
\* category names returns the error that lists exactly those four names and
\* leaves the plan as it was; the plan's keys are the four names in every
\* reachable state.
C25_InvalidCategoryRejected == [](C25_Closed) /\ [][C25_Step]_vars

\* A call was rejected while the plan held tasks.
C25_Witness ==
    /\ todo_reply.kind = "invalid"
    /\ todo_reply.category = "other_tasks"
    /\ \E c \in CategorySet : todo[c] # <<>>

\* A step of the running worker: a progress call, a save, or the end of
\* its run.
IsWorkerStep ==
    \/ w_progress' # w_progress
    \/ w_saved' # w_saved
    \/ (ex_pc = "running" /\ ex_pc' # "running")

C26_Step ==
    /\ (ex_pc = "dispatch" /\ ex_pc' = "running") => ex_dispatched[CurrentCategory] = 0
    /\ (ex_pc = "running" /\ IsWorkerStep) => todo' = todo

\* C26: the tasks handed to a worker were never handed to a worker before
\* (a second execute_research_plan does not dispatch them again), and no
\* step of a worker changes todo_list_storage.
C26_PlanConsumedOnce == [][C26_Step]_vars

(***************************************************************************)
(* The capacity of the bus (SpecBus) and the span tree (Spec).             *)
(***************************************************************************)
\* A capacity below the number of events the producers of one behaviour
\* publish.
BusCapacity == MaxApiEvents - 1

\* C27: the queue never buffers more events than a fixed capacity, however
\* many events are published while nothing is received.
C27_QueueBounded == Len(queue) <= BusCapacity

OpeningTypes == {"thought_start", "tool_call"}

\* The event that opened the span an event names as its parent: an earlier
\* event of the same trace whose spanId is that parentSpanId.
OpenedEarlier(k) ==
    \E j \in 1..(k - 1) :
        /\ history[j].traceId = history[k].traceId
        /\ history[j].spanId = history[k].parentSpanId
        /\ history[j].eventType \in OpeningTypes

\* C28: every published event's parentSpanId is the spanId of a span opened
\* earlier in the same trace, and no span is its own parent.
C28_SpanTreeWellFormed ==
    \A k \in 1..Len(history) :
        /\ OpenedEarlier(k)
        /\ history[k].parentSpanId # history[k].spanId

(***************************************************************************)
(* What registering a path returns (SpecPlan), and the file behind a       *)
(* registered path (SpecRegistry).                                         *)
(***************************************************************************)
\* C29: the value a registration returns tells whether the path was newly
\* inserted: a first registration of a path and a later registration of the
\* same path (which leaves the registry as it is) return different values.
C29_RegisterReportsNewly ==
    \A i, j \in 1..Len(save_log) :
        (save_log[i].path = save_log[j].path /\ save_log[i].newly # save_log[j].newly)
        => save_log[i].returned # save_log[j].returned

\* C30: every path in the registry has its file on disk, in every state a
\* reader of the registry can see, also after a write that failed.
C30_RegisteredPathHasFile ==
    \A i \in 1..Len(registry) : files[registry[i]].exists

(***************************************************************************)
(* Termination of the retrying caller (checked under SpecRetryLive).       *)
(***************************************************************************)
C31_Bounded ==
    /\ rc_attempts <= rc_max_retries + 1
    /\ Len(rc_delays) <= rc_max_retries
    /\ rc_pc = "loop" => (rc_attempts = rc_attempt /\ rc_attempt <= rc_max_retries)
    /\ \A k \in 1..Len(rc_delays) : rc_delays[k] <= Pow2(k - 1)

\* C31: a call makes at most max_retries + 1 network attempts, whatever the
\* upstream answers; the wait before attempt k + 1 is at most 2^(k-1); and
\* a call that has entered the loop returns.
C31_TerminatesWithinBudget == [](C31_Bounded) /\ ((rc_pc = "loop") ~> (rc_pc = "done"))

\* A call that used its whole budget: three attempts for max_retries = 2,
\* with the waits 1 and 2.
C31_Witness ==
    /\ rc_pc = "done"
    /\ rc_max_retries = 2
    /\ rc_attempts = 3
    /\ rc_delays = <<1, 2>>

(***************************************************************************)
(* The order of the workers of one execute_research_plan (Spec).           *)
(***************************************************************************)
AgentIndex(name) == CHOOSE i \in 1..Len(Categories) : AgentName(Categories[i]) = name

\* C32: workers run one after the other in the order competition, market,
\* price, legal: of two thought_start events, the earlier one is of an
\* earlier category and its span's thought_end is published before the
\* later thought_start; the invocation is done only with no worker running.
C32_WorkersStrictlySequential ==
    /\ \A j, k \in 1..Len(history) :
          (/\ j < k
           /\ history[j].eventType = "thought_start"
           /\ history[k].eventType = "thought_start")
          => /\ AgentIndex(history[j].agentName) < AgentIndex(history[k].agentName)
             /\ \E e \in (j + 1)..(k - 1) :
                   /\ history[e].eventType = "thought_end"
                   /\ history[e].spanId = history[j].spanId
    /\ ex_pc = "done" => ex_cat = Len(Categories)

\* The order alone: thought_start events follow the order of the categories.
C32_OrderOnly ==
    \A j, k \in 1..Len(history) :
        (/\ j < k
         /\ history[j].eventType = "thought_start"
         /\ history[k].eventType = "thought_start")
        => AgentIndex(history[j].agentName) < AgentIndex(history[k].agentName)

(***************************************************************************)
(* The inputs of a synthesis run (SpecSynthesis).                          *)
(***************************************************************************)
\* C33: the path of the combined report is not among the paths a synthesis
\* run reads, also when an earlier run has registered it.
C33_FinalReportNotAnInput ==
    \A i \in 1..Len(syn_log) :
        \A j \in 1..Len(syn_log[i].input) : syn_log[i].input[j] # FinalPath

(***************************************************************************)
(* A worker entry point given a task list of the wrong length (Spec).      *)
(***************************************************************************)
\* The step by which a worker called with len(tasks) # 2 ends.
C34_Step ==
    (ex_pc = "running" /\ w_tasks # 2 /\ ex_pc' # ex_pc)
    => /\ ex_pc' \in {"ending", "dispatch", "done"}
       /\ registry' = registry
       /\ files' = files
       /\ history' = history
       /\ queue' = queue
       /\ uuids' = uuids
       /\ w_progress' = w_progress
       /\ w_saved' = w_saved

\* While such a worker is in stream_and_capture_report, nothing of an agent
\* run has happened: no progress call, no save, and the last event published
\* is still the wrapper's thought_start of this span.
C34_NothingElse ==
    /\ (ex_pc \in {"running", "ending"} /\ w_tasks # 2)
          => /\ w_progress = 0
             /\ ~w_saved
             /\ history # <<>>
             /\ history[Len(history)].eventType = "thought_start"
             /\ history[Len(history)].spanId = ex_span
    /\ ex_pc \in {"failed", "stuck"} => w_tasks = 2

C35_Step ==
    (w_progress' = w_progress + 1)
    => LET ev == history'[Len(history')]
       IN  /\ history' = Append(history, ev)
           /\ queue' = Append(queue, ev)
           /\ dropped' = dropped
           /\ ev.eventType = "tool_call"
           /\ ev.agentName = AgentName(CurrentCategory)
           /\ ev.display_message = ProgressMessage(w_progress + 1)
           /\ progress_reply' = ProgressUpdated(ProgressStatus(w_progress + 1),
                                                ProgressTask(CurrentCategory))
           /\ ex_pc' = "running"
           /\ registry' = registry
           /\ files' = files

\* C35: each update_work_progress call of a worker appends exactly one
\* tool_call event to the queue, with the worker's agentName and the given
\* message, returns its confirmation, lets the worker run on (nothing is
\* raised) and leaves the registry as it is.
C35_ProgressPublishesOneEvent == [][C35_Step]_vars

\* The price worker's second call, made after two calls of the competition
\* worker: four tool_call events are queued.
C35_Witness ==
    /\ ex_pc = "running"
    /\ CurrentCategory = "price_tasks"
    /\ w_progress = 2
    /\ progress_reply = "Work progress updated: in_progress - price_tasks"
    /\ history[Len(history)].display_message = "step 2"
    /\ history[Len(history)].agentName = "PriceAgent"
    /\ Len(SelectSeq(queue, LAMBDA e : e.eventType = "tool_call")) = 4

(***************************************************************************)
(* What a save_*_report call leaves behind (SpecPlan).                     *)
(***************************************************************************)
SavedPath == PathOf(SaveOpOf(CurrentCategory))

\* The step of a worker's save tool.
C36_Step ==
    (~w_saved /\ w_saved')
    => LET call == save_log'[Len(save_log')]
       IN  /\ save_log' = Append(save_log, call)
           /\ call.path = SavedPath
           /\ \A p \in AllPaths \ {SavedPath} : files'[p] = files[p]
           /\ \E i \in 1..Len(registry') : registry'[i] = SavedPath
           /\ IF call.newly
              THEN registry' = Append(registry, SavedPath)
              ELSE registry' = registry
           /\ (call.returned = Returned(SavedPath, TRUE))
                 => files'[SavedPath] = File(ReportDraft(SavedPath, ex_runs))

\* C36: after a successful save_*_report(content) the report file holds
\* exactly content, whatever it held before, and its path is in the
\* registry; a later call with another content leaves the file holding
\* exactly that content and the registry as it was.
C36_SaveOverwrites == [][C36_Step]_vars

\* The second run's save has replaced the first run's report; the path was
\* registered by the first one.
C36_Witness ==
    /\ ex_runs = 2
    /\ w_saved
    /\ CurrentCategory = "competition_tasks"
    /\ Len(save_log) = 2
    /\ save_log[1].newly /\ save_log[1].returned = Returned(SavedPath, TRUE)
    /\ ~save_log[2].newly /\ save_log[2].returned = Returned(SavedPath, TRUE)
    /\ files[SavedPath] = File(ReportDraft(SavedPath, 2))
    /\ registry = <<SavedPath>>

\* ---------------------------------------------------------------------
\* C37: a call of update_todo_list with a valid category puts the given
\* tasks at the end of that category's list, in the order given and behind
\* the tasks already there, leaves every other category's list as it was,
\* and reports the new number of tasks of the category.
C37_Grown(c) == Len(todo'[c]) > Len(todo[c])

C37_Step ==
    \A c \in DOMAIN todo :
        C37_Grown(c) =>
            /\ SubSeq(todo'[c], 1, Len(todo[c])) = todo[c]
            /\ SubSeq(todo'[c], Len(todo[c]) + 1, Len(todo'[c]))
                  = NewTasks(todo[c], Len(todo'[c]) - Len(todo[c]))
            /\ \A d \in DOMAIN todo \ {c} : todo'[d] = todo[d]
            /\ DOMAIN todo' = DOMAIN todo
            /\ todo_reply' = [kind |-> "added", total |-> Len(todo'[c])]

C37_AppendKeepsOrder == [][C37_Step]_vars

\* A list that was dispatched with one task has been extended to two, while
\* another category holds tasks of its own.
C37_Witness ==
    \E c \in CategorySet :
        /\ ex_dispatched[c] = 1
        /\ todo[c] = <<"task 1", "task 2">>
        /\ todo_reply = [kind |-> "added", total |-> 2]
        /\ \E d \in CategorySet \ {c} : todo[d] # <<>>

\* ---------------------------------------------------------------------
\* C38: whatever store_research_plan and update_coordination_status calls
\* were made, the stored plans have pairwise different ids and
\* coordination_status has one entry for each of them and no other; the
\* entry of a plan is pending_coordination when the plan is stored; and an
\* update_coordination_status call for an id that is not stored answers
\* "not found" and changes neither the plans nor any status.
StoredIds == {received_plans_storage[i].id : i \in 1..Len(received_plans_storage)}

C38_Store ==
    /\ \A i, j \in 1..Len(received_plans_storage) :
          i # j => received_plans_storage[i].id # received_plans_storage[j].id
    /\ DOMAIN coordination_status = StoredIds

C38_Step ==
    /\ Len(received_plans_storage') > Len(received_plans_storage) =>
          /\ Len(received_plans_storage') = Len(received_plans_storage) + 1
          /\ SubSeq(received_plans_storage', 1, Len(received_plans_storage))
                = received_plans_storage
          /\ LET new == received_plans_storage'[Len(received_plans_storage')].id IN
                /\ coordination_status'[new] = "pending_coordination"
                /\ \A p \in DOMAIN coordination_status :
                      coordination_status'[p] = coordination_status[p]
    /\ \A p \in PlanIdsAsked \ {NoPlanId} :
          orch_reply' = PlanNotFound(p) =>
             /\ p \notin StoredIds
             /\ UNCHANGED <<received_plans_storage, coordination_status>>
    /\ (coordination_status' # coordination_status
           /\ received_plans_storage' = received_plans_storage) =>
          \E p \in StoredIds, status \in NewStatuses :
             /\ coordination_status' = SetItem(coordination_status, p, status)
             /\ orch_reply' = StatusUpdated(p, coordination_status[p], status)

C38_PlanStoreConsistent == [](C38_Store) /\ [][C38_Step]_vars

\* Two plans are stored, the first one has been moved to "completed", and an
\* update for a third id has just been refused.
C38_Witness ==
    /\ Len(received_plans_storage) = 2
    /\ coordination_status[PlanIdOf(1)] = "completed"
    /\ coordination_status[PlanIdOf(2)] = "pending_coordination"
    /\ orch_reply = PlanNotFound(PlanIdOf(3))

\* ---------------------------------------------------------------------
\* C39: when broadcast returns, every socket that was in
\* active_connections and open when it was called has been sent the
\* message and is still in active_connections, and every socket that was
\* in the list and broken has been removed from it.  (No socket changes
\* between the call and the return.)
WasActive == {bc_call[i] : i \in 1..Len(bc_call)}

GotMessage(c) ==
    /\ ws_inbox[c] # <<>>
    /\ ws_inbox[c][Len(ws_inbox[c])] = bc_message

C39_Returns == bc_pc = "iterating" /\ bc_pc' = "done"

C39_Step ==
    C39_Returns =>
        \A c \in WasActive :
            /\ ws_state[c] = "open" => (GotMessage(c) /\ c \in Connected)
            /\ ws_state[c] = "broken" => c \notin Connected

C39_BroadcastReachesHealthy == [][C39_Step]_vars

\* The smaller statement that the code keeps: no open socket is removed,
\* and a socket that was sent the message was open.
C39_NoHealthyRemoved ==
    [][C39_Returns =>
          /\ \A c \in WasActive : ws_state[c] = "open" => c \in Connected
          /\ \A c \in Conns : GotMessage(c) => ws_state[c] = "open"]_vars

=========================================================================
